-------------------------- MODULE ChatDirectoryProofs --------------------------
(***************************************************************************)
(* Proofs about ChatDirectory for any set of requests and of keys, over    *)
(* either repository.                                                      *)
(***************************************************************************)
EXTENDS ChatDirectory, WellFoundedInduction, TLAPS

USE DirectoryConstants

-------------------------------------------------------------------------------
(* The order of the SELECT.                                                 *)

(* A key with a stored chat has an oldest one.                              *)
LEMMA OldestFound ==
  ASSUME TypeOK, NEW key \in Keys, Stored(key) # {}
  PROVE  /\ Oldest(key) \in Stored(key)
         /\ \A d \in Stored(key) : chats[Oldest(key)].at <= chats[d].at
<1> DEFINE times == {chats[c].at : c \in Stored(key)}
<1>1. \A c \in Stored(key) : c \in Requests /\ chats[c].at \in Nat
  BY DEF Stored, TypeOK, Chat
<1>2. times \subseteq Nat /\ times # {}
  BY <1>1
<1>3. PICK n \in times : \A m \in times : <<m, n>> \notin OpToRel(<, Nat)
  BY <1>2, NatLessThanWellFounded, WFMin
<1>4. PICK c \in Stored(key) : chats[c].at = n
  OBVIOUS
<1>5. \A m \in times : ~ (m < n)
  BY <1>2, <1>3 DEF OpToRel
<1>6. ASSUME NEW d \in Stored(key) PROVE chats[c].at <= chats[d].at
  <2>1. chats[d].at \in times /\ chats[c].at \in Nat /\ chats[d].at \in Nat
    BY <1>1
  <2>2. ~ (chats[d].at < chats[c].at)
    BY <1>4, <1>5, <2>1
  <2> QED
    BY <2>1, <2>2
<1> QED
  BY <1>4, <1>6 DEF Oldest

-------------------------------------------------------------------------------
(* The inductive invariant.                                                 *)

(* DirectoryInv holds before the first request.                             *)
LEMMA DirectoryInit == Init => DirectoryInv
<1> SUFFICES ASSUME Init PROVE DirectoryInv
  OBVIOUS
<1>1. TypeOK
  BY DEF Init, TypeOK, Chat, Request
<1>2. ChatsWritten /\ TimesDiffer /\ OwnChat
  BY DEF Init, ChatsWritten, TimesDiffer, InFlight, OwnChat
<1>3. AloneInv
  BY DEF Init, AloneInv, InFlight, Stored
<1> QED
  BY <1>1, <1>2, <1>3 DEF DirectoryInv

(* A request that arrives: a key that is asked for meanwhile is raced.      *)
LEMMA CreateChatInv ==
  ASSUME DirectoryInv, NEW r \in Requests, NEW key \in Keys, CreateChat(r, key)
  PROVE  DirectoryInv'
<1>1. TypeOK
  BY DEF DirectoryInv
<1>2. /\ req[r].phase = "new" /\ UNCHANGED <<backend, chats, clock>>
      /\ req'[r].phase = "looking" /\ req'[r].key = key
      /\ req'[r].chat = NoChat
      /\ req'[r].unread = IF backend = "json"
                          THEN {c \in Requests : chats[c].stored # "no"} ELSE {}
      /\ req' = [req EXCEPT ![r] = req'[r]]
      /\ \A q \in Requests : q # r => req'[q] = req[q]
  BY <1>1 DEF CreateChat, TypeOK
<1>3. TypeOK'
  <2>1. req'[r] \in Request
    BY <1>1 DEF CreateChat, TypeOK, Request
  <2> QED
    BY <1>1, <1>2, <2>1 DEF CreateChat, TypeOK
<1>4. ChatsWritten' /\ TimesDiffer'
  BY <1>1, <1>2 DEF DirectoryInv, ChatsWritten, InFlight, TimesDiffer, TypeOK
<1>5. \A k : Stored(k)' = Stored(k)
  BY <1>2 DEF Stored
<1>6. OwnChat'
  BY <1>2, <1>5 DEF DirectoryInv, OwnChat, Stored
<1>7. AloneInv'
  <2> SUFFICES ASSUME NEW k \in Keys \ raced'
               PROVE  /\ \A p, q \in Requests :
                           InFlight(p)' /\ InFlight(q)' /\ req'[p].key = k
                             /\ req'[q].key = k => p = q
                      /\ \A c, d \in Stored(k)' : c = d
                      /\ \A q \in Requests :
                           req'[q].key = k =>
                             /\ req'[q].phase = "creating" => Stored(k)' = {}
                             /\ req'[q].phase = "looking" /\ backend' = "json"
                                  => Stored(k)' \subseteq req'[q].unread
    BY DEF AloneInv
  <2>1. k \notin raced
    BY DEF CreateChat
  <2>2. k = key => \A q \in Requests : ~ (InFlight(q) /\ req[q].key = k)
    BY DEF CreateChat
  <2>3. \A p, q \in Requests :
          InFlight(p)' /\ InFlight(q)' /\ req'[p].key = k /\ req'[q].key = k => p = q
    BY <1>2, <2>1, <2>2 DEF DirectoryInv, AloneInv, InFlight
  <2>4. ASSUME NEW q \in Requests, req'[q].key = k
        PROVE  /\ req'[q].phase = "creating" => Stored(k)' = {}
               /\ req'[q].phase = "looking" /\ backend' = "json"
                    => Stored(k)' \subseteq req'[q].unread
    <3>1. CASE q = r
      BY <1>2, <3>1 DEF Stored
    <3>2. CASE q # r
      BY <1>2, <1>5, <2>1, <2>4, <3>2 DEF DirectoryInv, AloneInv
    <3> QED
      BY <3>1, <3>2
  <2> QED
    BY <1>5, <2>1, <2>3, <2>4 DEF DirectoryInv, AloneInv
<1> QED
  BY <1>3, <1>4, <1>6, <1>7 DEF DirectoryInv

(* A request is answered with a stored chat of its key.                     *)
LEMMA ReturnInv ==
  ASSUME DirectoryInv, NEW r \in Requests, NEW c \in Stored(req[r].key),
         req[r].phase = "looking", Return(r, c),
         UNCHANGED <<backend, chats, clock, raced>>
  PROVE  DirectoryInv'
<1>1. TypeOK /\ c \in Requests
  BY DEF DirectoryInv, Stored
<1>2. /\ req'[r].phase = "done" /\ req'[r].chat = c
      /\ req'[r].key = req[r].key /\ req'[r].unread = req[r].unread
      /\ req'[r] \in Request
      /\ req' = [req EXCEPT ![r] = req'[r]]
      /\ \A q \in Requests : q # r => req'[q] = req[q]
  BY <1>1 DEF Return, TypeOK, Request
<1>3. TypeOK'
  BY <1>1, <1>2 DEF TypeOK
<1>4. ChatsWritten' /\ TimesDiffer'
  BY <1>2 DEF DirectoryInv, ChatsWritten, InFlight, TimesDiffer
<1>5. \A k : Stored(k)' = Stored(k)
  BY DEF Stored
<1>6. OwnChat'
  BY <1>2 DEF DirectoryInv, OwnChat, Stored
<1>7. AloneInv'
  BY <1>2, <1>5 DEF DirectoryInv, AloneInv, InFlight
<1> QED
  BY <1>3, <1>4, <1>6, <1>7 DEF DirectoryInv

(* Another directory was read in vain: the chat of the key was not there.   *)
LEMMA ReadOnInv ==
  ASSUME DirectoryInv, NEW r \in Requests, NEW c \in Requests,
         req[r].phase = "looking", c \notin Stored(req[r].key),
         req' = [req EXCEPT ![r].unread = @ \ {c}],
         UNCHANGED <<backend, chats, clock, raced>>
  PROVE  DirectoryInv'
<1>1. TypeOK
  BY DEF DirectoryInv
<1>2. /\ \A q \in Requests :
           /\ req'[q].phase = req[q].phase /\ req'[q].key = req[q].key
           /\ req'[q].chat = req[q].chat
           /\ q # r => req'[q] = req[q]
      /\ req'[r].unread = req[r].unread \ {c}
      /\ req'[r] \in Request
      /\ req' = [req EXCEPT ![r] = req'[r]]
  BY <1>1 DEF TypeOK, Request
<1>3. TypeOK'
  BY <1>1, <1>2 DEF TypeOK
<1>4. ChatsWritten' /\ TimesDiffer'
  BY <1>2 DEF DirectoryInv, ChatsWritten, InFlight, TimesDiffer
<1>5. \A k : Stored(k)' = Stored(k)
  BY DEF Stored
<1>6. OwnChat'
  BY <1>2 DEF DirectoryInv, OwnChat, Stored
<1>7. AloneInv'
  BY <1>2, <1>5 DEF DirectoryInv, AloneInv, InFlight
<1> QED
  BY <1>3, <1>4, <1>6, <1>7 DEF DirectoryInv

(* A chat is constructed when none of its key was found.                    *)
LEMMA NotFoundInv ==
  ASSUME DirectoryInv, NEW r \in Requests, NotFound(r)
  PROVE  DirectoryInv'
<1>1. TypeOK /\ backend \in {"json", "postgres"}
  BY DEF DirectoryInv, TypeOK
<1>2. /\ req[r].phase = "looking" /\ req[r].unread = {}
      /\ chats[r].stored # "yes" /\ chats[r].at = 0 /\ req[r].key \in Keys
      /\ UNCHANGED <<backend, raced>> /\ clock' = clock + 1
  BY DEF NotFound, Construct, DirectoryInv, ChatsWritten, InFlight
<1>3. /\ req'[r].phase = "creating" /\ req'[r].key = req[r].key
      /\ req'[r].unread = {} /\ req'[r].chat = req[r].chat
      /\ req'[r] \in Request
      /\ req' = [req EXCEPT ![r] = req'[r]]
      /\ \A q \in Requests : q # r => req'[q] = req[q]
  BY <1>1, <1>2 DEF NotFound, Construct, TypeOK, Request
<1>4. /\ chats'[r].stored # "yes" /\ chats'[r].key = req[r].key
      /\ chats'[r].at = clock + 1 /\ chats'[r] \in Chat
      /\ chats' = [chats EXCEPT ![r] = chats'[r]]
      /\ \A c \in Requests : c # r => chats'[c] = chats[c]
  <2>1. clock + 1 \in Nat /\ req[r].key \in Keys \cup {NoKey}
    BY <1>1, <1>2 DEF TypeOK
  <2> QED
    BY <1>1, <2>1 DEF NotFound, Construct, TypeOK, Chat
<1>5. TypeOK'
  BY <1>1, <1>2, <1>3, <1>4 DEF TypeOK
<1>6. ChatsWritten'
  BY <1>1, <1>2, <1>3, <1>4 DEF DirectoryInv, ChatsWritten, InFlight, TypeOK
<1>7. TimesDiffer'
  <2>1. \A c \in Requests : chats[c].at \in Nat /\ chats[c].at <= clock
    BY <1>1 DEF DirectoryInv, TimesDiffer, TypeOK, Chat
  <2>2. clock \in Nat
    BY <1>1 DEF TypeOK
  <2> QED
    BY <1>2, <1>4, <2>1, <2>2 DEF DirectoryInv, TimesDiffer
<1>8. \A k : Stored(k)' = Stored(k)
  BY <1>2, <1>4 DEF Stored
<1>9. OwnChat'
  BY <1>3, <1>8 DEF DirectoryInv, OwnChat
<1>10. AloneInv'
  <2> SUFFICES ASSUME NEW k \in Keys \ raced
               PROVE  /\ \A p, q \in Requests :
                           InFlight(p)' /\ InFlight(q)' /\ req'[p].key = k
                             /\ req'[q].key = k => p = q
                      /\ \A c, d \in Stored(k)' : c = d
                      /\ \A q \in Requests :
                           req'[q].key = k =>
                             /\ req'[q].phase = "creating" => Stored(k)' = {}
                             /\ req'[q].phase = "looking" /\ backend' = "json"
                                  => Stored(k)' \subseteq req'[q].unread
    BY <1>2 DEF AloneInv
  <2>1. \A p \in Requests : InFlight(p)' => InFlight(p) /\ req'[p].key = req[p].key
    BY <1>2, <1>3 DEF InFlight
  <2>2. req[r].key = k => Stored(k) = {}
    BY <1>1, <1>2 DEF NotFound, DirectoryInv, AloneInv
  <2>3. ASSUME NEW q \in Requests, req'[q].key = k
        PROVE  /\ req'[q].phase = "creating" => Stored(k)' = {}
               /\ req'[q].phase = "looking" /\ backend' = "json"
                    => Stored(k)' \subseteq req'[q].unread
    <3>1. CASE q = r
      BY <1>3, <1>8, <2>2, <2>3, <3>1
    <3>2. CASE q # r
      BY <1>2, <1>3, <1>8, <2>3, <3>2 DEF DirectoryInv, AloneInv
    <3> QED
      BY <3>1, <3>2
  <2>4. \A c, d \in Stored(k)' : c = d
    BY <1>8 DEF DirectoryInv, AloneInv
  <2> QED
    BY <2>1, <2>3, <2>4 DEF DirectoryInv, AloneInv
<1> QED
  BY <1>5, <1>6, <1>7, <1>9, <1>10 DEF DirectoryInv

(* The chat is saved and its creator answered.                              *)
LEMMA SaveChatInv ==
  ASSUME DirectoryInv, NEW r \in Requests, SaveChat(r)
  PROVE  DirectoryInv'
<1>1. TypeOK
  BY DEF DirectoryInv
<1>2. /\ req[r].phase = "creating" /\ chats[r].key = req[r].key
      /\ chats[r].at # 0 /\ req[r].key \in Keys
      /\ UNCHANGED <<backend, clock, raced>>
  BY DEF SaveChat, DirectoryInv, ChatsWritten, InFlight
<1>3. /\ req'[r].phase = "done" /\ req'[r].key = req[r].key
      /\ req'[r].unread = req[r].unread /\ req'[r].chat = r
      /\ req'[r] \in Request
      /\ req' = [req EXCEPT ![r] = req'[r]]
      /\ \A q \in Requests : q # r => req'[q] = req[q]
  BY <1>1 DEF SaveChat, Return, TypeOK, Request
<1>4. /\ chats'[r].stored = "yes" /\ chats'[r].key = chats[r].key
      /\ chats'[r].at = chats[r].at /\ chats'[r] \in Chat
      /\ chats' = [chats EXCEPT ![r] = chats'[r]]
      /\ \A c \in Requests : c # r => chats'[c] = chats[c]
  BY <1>1 DEF SaveChat, TypeOK, Chat
<1>5. TypeOK'
  BY <1>1, <1>2, <1>3, <1>4 DEF TypeOK
<1>6. ChatsWritten' /\ TimesDiffer'
  BY <1>2, <1>3, <1>4 DEF DirectoryInv, ChatsWritten, InFlight, TimesDiffer
<1>7. \A k : Stored(k)' = IF k = req[r].key THEN Stored(k) \cup {r} ELSE Stored(k)
  BY <1>2, <1>4 DEF Stored
<1>8. OwnChat'
  BY <1>3, <1>7 DEF DirectoryInv, OwnChat
<1>9. AloneInv'
  <2> SUFFICES ASSUME NEW k \in Keys \ raced
               PROVE  /\ \A p, q \in Requests :
                           InFlight(p)' /\ InFlight(q)' /\ req'[p].key = k
                             /\ req'[q].key = k => p = q
                      /\ \A c, d \in Stored(k)' : c = d
                      /\ \A q \in Requests :
                           req'[q].key = k =>
                             /\ req'[q].phase = "creating" => Stored(k)' = {}
                             /\ req'[q].phase = "looking" /\ backend' = "json"
                                  => Stored(k)' \subseteq req'[q].unread
    BY <1>2 DEF AloneInv
  <2>1. \A p \in Requests : InFlight(p)' => p # r /\ InFlight(p)
    BY <1>3 DEF InFlight
  <2>2. CASE k = req[r].key
    <3>1. Stored(k) = {}
      BY <1>2, <2>2 DEF DirectoryInv, AloneInv
    <3>2. \A p \in Requests : ~ (InFlight(p)' /\ req'[p].key = k)
      BY <1>2, <1>3, <2>1, <2>2 DEF DirectoryInv, AloneInv, InFlight
    <3> QED
      BY <1>7, <2>2, <3>1, <3>2 DEF InFlight
  <2>3. CASE k # req[r].key
    BY <1>2, <1>3, <1>7, <2>1, <2>3 DEF DirectoryInv, AloneInv
  <2> QED
    BY <2>2, <2>3
<1> QED
  BY <1>5, <1>6, <1>8, <1>9 DEF DirectoryInv

(* The chat is not saved, and stays unknown.                                *)
LEMMA SaveFailsInv ==
  ASSUME DirectoryInv, NEW r \in Requests, SaveFails(r)
  PROVE  DirectoryInv'
<1>1. TypeOK
  BY DEF DirectoryInv
<1>2. /\ req[r].phase = "creating" /\ req'[r].phase = "failed"
      /\ req'[r].key = req[r].key /\ req'[r].unread = req[r].unread
      /\ req'[r].chat = req[r].chat /\ req'[r] \in Request
      /\ req' = [req EXCEPT ![r] = req'[r]]
      /\ \A q \in Requests : q # r => req'[q] = req[q]
      /\ UNCHANGED <<backend, chats, clock, raced>>
  BY <1>1 DEF SaveFails, TypeOK, Request
<1>3. TypeOK'
  BY <1>1, <1>2 DEF TypeOK
<1>4. ChatsWritten' /\ TimesDiffer'
  BY <1>2 DEF DirectoryInv, ChatsWritten, InFlight, TimesDiffer
<1>5. \A k : Stored(k)' = Stored(k)
  BY <1>2 DEF Stored
<1>6. OwnChat'
  BY <1>2, <1>5 DEF DirectoryInv, OwnChat
<1>7. AloneInv'
  BY <1>2, <1>5 DEF DirectoryInv, AloneInv, InFlight
<1> QED
  BY <1>3, <1>4, <1>6, <1>7 DEF DirectoryInv

(* Every step keeps DirectoryInv.                                           *)
LEMMA DirectoryNext == DirectoryInv /\ [Next]_vars => DirectoryInv'
<1> SUFFICES ASSUME DirectoryInv, [Next]_vars PROVE DirectoryInv'
  OBVIOUS
<1>1. ASSUME NEW r \in Requests, NEW c \in Requests, ReadMeta(r, c)
      PROVE  DirectoryInv'
  <2>1. CASE c \in Stored(req[r].key)
    BY <1>1, <2>1, ReturnInv DEF ReadMeta
  <2>2. CASE c \notin Stored(req[r].key)
    BY <1>1, <2>2, ReadOnInv DEF ReadMeta
  <2> QED
    BY <2>1, <2>2
<1>2. ASSUME NEW r \in Requests, Found(r) PROVE DirectoryInv'
  <2>1. req[r].key \in Keys /\ req[r].phase = "looking"
    BY <1>2 DEF Found, DirectoryInv, ChatsWritten, InFlight
  <2>2. Oldest(req[r].key) \in Stored(req[r].key)
    BY <1>2, <2>1, OldestFound DEF Found, DirectoryInv
  <2> QED
    BY <1>2, <2>1, <2>2, ReturnInv DEF Found
<1>3. CASE UNCHANGED vars
  BY <1>3 DEF vars, DirectoryInv, TypeOK, ChatsWritten, InFlight, TimesDiffer, OwnChat,
     AloneInv, Stored, InFlight
<1> QED
  BY <1>1, <1>2, <1>3, CreateChatInv, NotFoundInv, SaveChatInv, SaveFailsInv
  DEF Next

(* DirectoryInv holds in every state: the argument for the theorems below.  *)
THEOREM DirectoryInvariance == Spec => []DirectoryInv
BY DirectoryInit, DirectoryNext, PTL DEF Spec

-------------------------------------------------------------------------------
(* The results.                                                             *)

(* A chat is only given to its owner, and stays stored under his key.       *)
THEOREM ChatIsOwn == Spec => []OwnChat
<1>1. DirectoryInv => OwnChat
  BY DEF DirectoryInv
<1> QED
  BY <1>1, DirectoryInvariance, PTL

(* Everyone who asks for a chat gets the same one, as long as no two        *)
(* requests for a key are under way together; a failed creation changes     *)
(* nothing about that.                                                      *)
THEOREM SameChatAlone == Spec => []IdempotentAlone
<1>1. DirectoryInv => IdempotentAlone
  <2> SUFFICES ASSUME DirectoryInv, NEW q \in Requests, NEW r \in Requests,
                      req[q].phase = "done", req[r].phase = "done",
                      req[q].key = req[r].key, req[q].key \notin raced
               PROVE  req[q].chat = req[r].chat
    BY DEF IdempotentAlone
  <2>1. req[q].chat \in Stored(req[q].key) /\ req[r].chat \in Stored(req[q].key)
    BY DEF DirectoryInv, OwnChat
  <2>2. req[q].key \in Keys
    BY <2>1 DEF DirectoryInv, ChatsWritten, Stored
  <2> QED
    BY <2>1, <2>2 DEF DirectoryInv, AloneInv
<1> QED
  BY <1>1, DirectoryInvariance, PTL

-------------------------------------------------------------------------------
(* The order of the answers of the postgres repository.                     *)

(* OldestFound as one formula, which then also holds after a step.          *)
OldestOrdered ==
  TypeOK =>
    \A key \in Keys :
      Stored(key) # {} =>
        /\ Oldest(key) \in Stored(key)
        /\ \A d \in Stored(key) : chats[Oldest(key)].at <= chats[d].at

LEMMA OldestAlwaysFound == OldestOrdered
BY OldestFound DEF OldestOrdered

(* Of two moments with the same stored chats, and the same times of them,   *)
(* the oldest chat is the same: times differ.                               *)
LEMMA OldestSame ==
  ASSUME DirectoryInv, DirectoryInv', NEW key \in Keys, Stored(key) # {},
         Stored(key)' = Stored(key),
         \A c \in Stored(key) : chats'[c].at = chats[c].at
  PROVE  Oldest(key)' = Oldest(key)
<1>1. /\ Oldest(key) \in Stored(key)
      /\ \A d \in Stored(key) : chats[Oldest(key)].at <= chats[d].at
  BY OldestFound DEF DirectoryInv
<1>2. /\ Oldest(key)' \in Stored(key)'
      /\ \A d \in Stored(key)' : chats'[Oldest(key)'].at <= chats'[d].at
  <2>1. OldestOrdered'
    BY OldestAlwaysFound, PTL
  <2> QED
    BY <2>1 DEF OldestOrdered, DirectoryInv
<1>3. PICK c \in Stored(key), d \in Stored(key) :
        c = Oldest(key) /\ d = Oldest(key)'
  BY <1>1, <1>2
<1>4. chats[c].at <= chats[d].at /\ chats[d].at <= chats[c].at
  BY <1>1, <1>2, <1>3
<1>5. /\ c \in Requests /\ d \in Requests /\ chats[c].at # 0
      /\ chats[c].at \in Nat /\ chats[d].at \in Nat
  BY <1>3 DEF DirectoryInv, ChatsWritten, TypeOK, Chat, Stored
<1>6. c = d
  BY <1>4, <1>5 DEF DirectoryInv, TimesDiffer
<1> QED
  BY <1>3, <1>6

(* With a chat stored and none being created, a step creates none, and the  *)
(* answer to a request is the oldest.                                       *)
LEMMA SettledStays ==
  ASSUME DirectoryInv, DirectoryInv', [Next]_vars, backend = "postgres",
         NEW key \in Keys, Settled(key)
  PROVE  /\ Settled(key)' /\ Oldest(key)' = Oldest(key)
         /\ \A r \in Requests :
              InFlight(r) /\ req[r].key = key /\ ~ InFlight(r)'
                => req'[r].chat = Oldest(key)
<1> DEFINE Answer(r) ==
             InFlight(r) /\ req[r].key = key /\ ~ InFlight(r)'
               => req'[r].chat = Oldest(key)
           NoneCreated ==
             /\ \A r \in Requests : req'[r].phase = "creating" => req'[r].key # key
             /\ \A r \in Requests : Answer(r)
<1>1. TypeOK
  BY DEF DirectoryInv
<1>2. SUFFICES /\ Stored(key)' = Stored(key) /\ NoneCreated
               /\ \A c \in Stored(key) : chats'[c].at = chats[c].at
  BY OldestSame DEF Settled
<1>3. ASSUME NEW r \in Requests, NEW k \in Keys, CreateChat(r, k)
      PROVE  /\ UNCHANGED chats /\ NoneCreated
  BY <1>1, <1>3 DEF CreateChat, TypeOK, Settled, InFlight
<1>4. ASSUME NEW r \in Requests, NEW c \in Requests, ReadMeta(r, c) PROVE FALSE
  BY <1>4 DEF ReadMeta, DirectoryInv, ChatsWritten
<1>5. ASSUME NEW r \in Requests, Found(r)
      PROVE  UNCHANGED chats /\ NoneCreated
  BY <1>1, <1>5 DEF Found, Return, TypeOK, Settled, InFlight
<1>6. ASSUME NEW r \in Requests, NotFound(r)
      PROVE  /\ \A c \in Requests : c # r => chats'[c] = chats[c]
             /\ chats'[r].stored # "yes" /\ chats[r].stored # "yes"
             /\ NoneCreated
  <2>1. req[r].key # key /\ req[r].phase = "looking"
    BY <1>6 DEF NotFound, Settled
  <2>2. chats[r].stored # "yes"
    BY <2>1 DEF DirectoryInv, ChatsWritten
  <2>3. /\ \A c \in Requests : c # r => chats'[c] = chats[c]
        /\ chats'[r].stored # "yes"
    BY <1>1, <1>6 DEF NotFound, Construct, TypeOK
  <2>4. NoneCreated
    BY <1>1, <1>6, <2>1 DEF NotFound, Construct, TypeOK, Settled, InFlight
  <2> QED
    BY <2>2, <2>3, <2>4
<1>7. ASSUME NEW r \in Requests, SaveChat(r)
      PROVE  /\ \A c \in Requests : c # r => chats'[c] = chats[c]
             /\ chats'[r].key # key /\ chats[r].key # key
             /\ NoneCreated
  <2>1. req[r].phase = "creating" /\ req[r].key # key /\ chats[r].key = req[r].key
    BY <1>7 DEF SaveChat, Settled, DirectoryInv, ChatsWritten
  <2>2. /\ \A c \in Requests : c # r => chats'[c] = chats[c]
        /\ chats'[r].key = chats[r].key
    BY <1>1, <1>7 DEF SaveChat, TypeOK, Chat
  <2>3. NoneCreated
    BY <1>1, <1>7, <2>1 DEF SaveChat, Return, TypeOK, Settled, InFlight
  <2> QED
    BY <2>1, <2>2, <2>3
<1>8. ASSUME NEW r \in Requests, SaveFails(r)
      PROVE  UNCHANGED chats /\ NoneCreated
  BY <1>1, <1>8 DEF SaveFails, TypeOK, Settled, InFlight
<1>9. CASE UNCHANGED vars
  BY <1>9 DEF vars, Settled, InFlight, Stored
<1>10. CASE UNCHANGED chats /\ NoneCreated
  BY <1>10 DEF Stored
<1>11. ASSUME NEW r \in Requests, NotFound(r)
       PROVE  /\ Stored(key)' = Stored(key)
              /\ \A c \in Stored(key) : chats'[c].at = chats[c].at
  BY <1>6, <1>11 DEF Stored
<1>12. ASSUME NEW r \in Requests, SaveChat(r)
       PROVE  /\ Stored(key)' = Stored(key)
              /\ \A c \in Stored(key) : chats'[c].at = chats[c].at
  BY <1>7, <1>12 DEF Stored
<1> QED
  BY <1>3, <1>4, <1>5, <1>6, <1>7, <1>8, <1>9, <1>10, <1>11, <1>12 DEF Next

(* However requests race, the postgres repository settles: once a chat is   *)
(* stored and none of its key is being created, every later answer is that  *)
(* key's oldest chat.                                                       *)
THEOREM OldestChatStays == Spec => OldestStays
<1>1. DirectoryInv /\ DirectoryInv' /\ [Next]_vars =>
        [backend = "postgres" =>
           \A key \in Keys :
             Settled(key) =>
               /\ Settled(key)' /\ Oldest(key)' = Oldest(key)
               /\ \A r \in Requests :
                    InFlight(r) /\ req[r].key = key /\ ~ InFlight(r)'
                      => req'[r].chat = Oldest(key)]_vars
  BY SettledStays
<1> QED
  BY <1>1, DirectoryInvariance, PTL DEF Spec, OldestStays
===============================================================================
