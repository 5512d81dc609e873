---------------------------- MODULE ChatDirectory -----------------------------
(***************************************************************************)
(* POST /chats: finding or creating the chat of an owner on an interface   *)
(* (get_or_create_chat in src/app/chat/service.py and in both repositories *)
(* of src/app/chat/repositories).  A chat is named by the request that     *)
(* created it.  The postgres repository looks with one SELECT; the json    *)
(* one lists the directories first and then reads them one by one.         *)
(***************************************************************************)
EXTENDS Naturals

CONSTANTS
  Requests,
  Keys,      \* pairs of an owner and an interface
  Backends,  \* of "json" and "postgres"
  NoKey, NoChat

ASSUME DirectoryConstants ==
  /\ Backends \subseteq {"json", "postgres"}
  /\ NoKey \notin Keys /\ NoChat \notin Requests

VARIABLES
  backend,  \* the repository this deployment uses; never changes
  chats,    \* chat -> what the repository holds of it
  req,
  clock,    \* the time of the last chat constructed
  raced     \* history: keys asked for while another request was under way

vars == <<backend, chats, req, clock, raced>>

(* "unreadable": the directory is there, its chat.json missing, empty or    *)
(* cut short.                                                               *)
Chat ==
  [stored : {"no", "unreadable", "yes"}, key : Keys \cup {NoKey},
   at : Nat]

Request ==
  [phase : {"new", "looking", "creating", "done", "failed"},
   key : Keys \cup {NoKey},
   unread : SUBSET Requests,         \* directories still to be read
   chat : Requests \cup {NoChat}]    \* the chat_id of the response

TypeOK ==
  /\ backend \in Backends /\ raced \subseteq Keys
  /\ chats \in [Requests -> Chat]
  /\ req \in [Requests -> Request]
  /\ \A r \in Requests : req[r].phase = "done" <=> req[r].chat # NoChat
  /\ clock \in Nat

Init ==
  /\ backend \in Backends /\ raced = {}
  /\ chats = [c \in Requests |->
                [stored |-> "no", key |-> NoKey, at |-> 0]]
  /\ req = [r \in Requests |->
              [phase |-> "new", key |-> NoKey,
               unread |-> {}, chat |-> NoChat]]
  /\ clock = 0

InFlight(r) == req[r].phase \in {"looking", "creating"}

CreateChat(r, key) ==
  /\ req[r].phase = "new"
  /\ raced' = IF \E q \in Requests : InFlight(q) /\ req[q].key = key
              THEN raced \cup {key} ELSE raced
  /\ req' = [req EXCEPT ![r] =
               [phase |-> "looking", key |-> key,
                unread |-> IF backend = "json"
                           THEN {c \in Requests : chats[c].stored # "no"} ELSE {},
                chat |-> NoChat]]
  /\ UNCHANGED <<backend, chats, clock>>

Stored(key) == {c \in Requests : chats[c].stored = "yes" /\ chats[c].key = key}

Oldest(key) ==
  CHOOSE c \in Stored(key) : \A d \in Stored(key) : chats[c].at <= chats[d].at

(* get_chat and get_or_create_chat return the chat that was found.          *)
Return(r, c) == req' = [req EXCEPT ![r].phase = "done", ![r].chat = c]

(* The Chat is constructed; the json repository also makes the directory.   *)
Construct(r) ==
  /\ clock' = clock + 1
  /\ chats' = [chats EXCEPT ![r] =
                 [stored |-> IF backend = "json" THEN "unreadable" ELSE "no",
                  key |-> req[r].key, at |-> clock + 1]]
  /\ req' = [req EXCEPT ![r].phase = "creating"]
  /\ UNCHANGED <<backend, raced>>

(* The json repository reads the next chat.json.                            *)
ReadMeta(r, c) ==
  /\ req[r].phase = "looking"
  /\ c \in req[r].unread
  /\ IF c \in Stored(req[r].key) THEN Return(r, c)
     ELSE req' = [req EXCEPT ![r].unread = @ \ {c}]
  /\ UNCHANGED <<backend, chats, clock, raced>>

(* Faulty variant: the key is not looked at.                                *)
FoundAnyKey(r) ==
  /\ backend = "postgres"
  /\ req[r].phase = "looking"
  /\ \E c \in Requests : chats[c].stored = "yes" /\ Return(r, c)
  /\ UNCHANGED <<backend, chats, clock, raced>>

(* Faulty variant: the SELECT has no ORDER BY and takes any row.            *)
FoundAnyRow(r) ==
  /\ backend = "postgres"
  /\ req[r].phase = "looking"
  /\ \E c \in Stored(req[r].key) : Return(r, c)
  /\ UNCHANGED <<backend, chats, clock, raced>>

(* The postgres repository's SELECT finds a row.                            *)
Found(r) ==
  /\ backend = "postgres"
  /\ req[r].phase = "looking"
  /\ Stored(req[r].key) # {}
  /\ Return(r, Oldest(req[r].key))
  /\ UNCHANGED <<backend, chats, clock, raced>>

(* No row was selected, or every directory was read in vain.                *)
NotFound(r) ==
  /\ req[r].phase = "looking"
  /\ req[r].unread = {}
  /\ backend = "postgres" => Stored(req[r].key) = {}
  /\ Construct(r)

(* Faulty variant: nothing is committed or flushed before the answer.       *)
SaveChatUnflushed(r) ==
  /\ req[r].phase = "creating"
  /\ chats' = chats
  /\ Return(r, r)
  /\ UNCHANGED <<backend, clock, raced>>

SaveChat(r) ==
  /\ req[r].phase = "creating"
  /\ chats' = [chats EXCEPT ![r].stored = "yes"]
  /\ Return(r, r)
  /\ UNCHANGED <<backend, clock, raced>>

(* The commit fails and rolls back; the file is left cut short.             *)
SaveFails(r) ==
  /\ req[r].phase = "creating"
  /\ req' = [req EXCEPT ![r].phase = "failed"]
  /\ UNCHANGED <<backend, chats, clock, raced>>

Next ==
  \E r \in Requests :
    \/ \E key \in Keys : CreateChat(r, key)
    \/ \E c \in Requests : ReadMeta(r, c)
    \/ Found(r) \/ NotFound(r) \/ SaveChat(r) \/ SaveFails(r)

Spec == Init /\ [][Next]_vars

-------------------------------------------------------------------------------
(* Everyone who asks for the chat of an owner on an interface gets the same *)
(* one, also after attempts to create it failed.                            *)
Idempotent ==
  \A q, r \in Requests :
    /\ req[q].phase = "done" /\ req[r].phase = "done"
    /\ req[q].key = req[r].key
    => req[q].chat = req[r].chat

(* That is so as long as no two requests for a key are under way together.  *)
IdempotentAlone ==
  \A q, r \in Requests :
    /\ req[q].phase = "done" /\ req[r].phase = "done"
    /\ req[q].key = req[r].key /\ req[q].key \notin raced
    => req[q].chat = req[r].chat

(* A chat is only given to its owner, and stays stored under his key.       *)
OwnChat ==
  \A r \in Requests : req[r].phase = "done" => req[r].chat \in Stored(req[r].key)

(* Even when requests race, the postgres repository settles: once a chat is *)
(* stored and no creation for its key is under way, none is created again   *)
(* and every later answer is the same chat, the oldest.                     *)
Settled(key) ==
  /\ Stored(key) # {}
  /\ \A r \in Requests : req[r].phase = "creating" => req[r].key # key

OldestStays ==
  [][backend = "postgres" =>
       \A key \in Keys :
         Settled(key) =>
           /\ Settled(key)' /\ Oldest(key)' = Oldest(key)
           /\ \A r \in Requests :
                InFlight(r) /\ req[r].key = key /\ ~ InFlight(r)'
                  => req'[r].chat = Oldest(key)]_vars

-------------------------------------------------------------------------------
(* The inductive invariant behind these properties.                         *)

(* A chat is written by the request it is named after, once, under the key  *)
(* and with the time it was constructed with.                               *)
ChatsWritten ==
  \A r \in Requests :
    /\ chats[r].stored = "yes" =>
         req[r].phase = "done" /\ chats[r].at # 0 /\ chats[r].key \in Keys
    /\ req[r].phase = "creating" => chats[r].key = req[r].key /\ chats[r].at # 0
    /\ InFlight(r) => req[r].key \in Keys
    /\ req[r].phase \in {"new", "looking"} => chats[r].at = 0
    /\ backend = "postgres" => req[r].unread = {}

(* The clock gives every chat a time of its own.                            *)
TimesDiffer ==
  /\ \A c \in Requests : chats[c].at <= clock
  /\ \A c, d \in Requests : chats[c].at = chats[d].at /\ chats[c].at # 0 => c = d

(* Of a key that was never asked for twice at a time there is at most one   *)
(* chat, none while one is being created, and a json request that is        *)
(* looking still has it to read.                                            *)
AloneInv ==
  \A key \in Keys \ raced :
    /\ \A q, r \in Requests :
         InFlight(q) /\ InFlight(r) /\ req[q].key = key /\ req[r].key = key => q = r
    /\ \A c, d \in Stored(key) : c = d
    /\ \A r \in Requests :
         req[r].key = key =>
           /\ req[r].phase = "creating" => Stored(key) = {}
           /\ req[r].phase = "looking" /\ backend = "json"
                => Stored(key) \subseteq req[r].unread

DirectoryInv ==
  TypeOK /\ ChatsWritten /\ TimesDiffer /\ OwnChat /\ AloneInv
===============================================================================
