------------------------------ MODULE Broadcast -------------------------------
(***************************************************************************)
(* The admin's broadcast (src/app/services/broadcaster.py and its route):  *)
(* to a list of users, or to all those of an interface, one after another  *)
(* through the bot's /notify.                                              *)
(***************************************************************************)
EXTENDS Naturals, Sequences, FiniteSets, SequencesExt

CONSTANTS
  OwnerIds,       \* texts: the owner_external_id of chats
  ChatIds,        \* numbers: where /notify sends
  NotANumber,     \* what int() refuses
  IntOf,          \* what int() makes of a text; of two texts, maybe the same
  NoOwnerId,      \* a recipient named in the request
  MaxChats,       \* bound: chats of the interface
  MaxTargets      \* bound: the explicit list of a broadcast

ASSUME BroadcastConstants ==
  /\ MaxChats \in Nat /\ MaxTargets \in Nat
  /\ IntOf \in [OwnerIds -> ChatIds \cup {NotANumber}]
  /\ NotANumber \notin ChatIds /\ NoOwnerId \notin OwnerIds

VARIABLES
  chatOwners,  \* the owners of the chats of the interface
  broadcast

broadcastVars == <<chatOwners, broadcast>>

(* Whom a message is sent to, and the owner id he was found by (history).   *)
Recipient == [owner : OwnerIds \cup {NoOwnerId}, chat : ChatIds]

BroadcastTypeOK ==
  /\ chatOwners \in Seq(OwnerIds)
  /\ broadcast \in [step : {"new", "sending", "done", "refused"},
                    by : {"none", "list", "interface"},
                    todo : Seq(Recipient), asked : Seq(Recipient),
                    sent : Nat, failed : Nat,
                    delivered : Seq(Recipient)]   \* history

BroadcastInit ==
  /\ chatOwners \in UNION {[1 .. n -> OwnerIds] : n \in 0 .. MaxChats}
  /\ broadcast = [step |-> "new", by |-> "none", todo |-> <<>>, asked |-> <<>>,
                  sent |-> 0, failed |-> 0, delivered |-> <<>>]

-------------------------------------------------------------------------------
Numeric == {o \in OwnerIds : IntOf[o] # NotANumber}

Named(c) == [owner |-> NoOwnerId, chat |-> c]

Found(o) == [owner |-> o, chat |-> IntOf[o]]

(* Faulty variant: a row per chat.                                          *)
OwnersOfChats ==
  LET rows == SelectSeq(chatOwners, LAMBDA o : o \in Numeric)
  IN {[k \in DOMAIN rows |-> Found(rows[k])]}

(* list_owner_ids_by_interface: each owner id once, in any order, as the    *)
(* number it is; those that are none are left out.  Two ids that are the    *)
(* same number (42 and 042) are two recipients.                             *)
OwnerIdsByInterface ==
  LET ids == {chatOwners[i] : i \in DOMAIN chatOwners} \cap Numeric
  IN {[k \in DOMAIN rows |-> Found(rows[k])] :
        rows \in SetToAllKPermutations(ids) \cap [1 .. Cardinality(ids) -> Numeric]}

(* The recipients of the body, or those of the interface; none: 400.        *)
BroadcastRoute(by, ids) ==
  /\ broadcast.step = "new"
  /\ broadcast' = [broadcast EXCEPT !.by = by, !.todo = ids, !.asked = ids,
                     !.step = IF ids = <<>> THEN "refused" ELSE "sending"]
  /\ UNCHANGED chatOwners

Sending == broadcast.step = "sending" /\ broadcast.todo # <<>>

(* The next recipient has been asked for.                                   *)
Asked(b) == [b EXCEPT !.todo = Tail(b.todo)]

(* /notify answers 200 after the bot has sent the message.                  *)
Notified ==
  /\ Sending
  /\ broadcast' = [Asked(broadcast) EXCEPT !.sent = @ + 1,
                     !.delivered = Append(@, Head(broadcast.todo))]
  /\ UNCHANGED chatOwners

(* An error or a time-out, before the bot has sent it or after.             *)
NotNotified ==
  /\ Sending
  /\ \E delivered \in {broadcast.delivered,
                       Append(broadcast.delivered, Head(broadcast.todo))} :
       broadcast' = [Asked(broadcast) EXCEPT !.failed = @ + 1,
                                             !.delivered = delivered]
  /\ UNCHANGED chatOwners

BroadcastResult ==
  /\ broadcast.step = "sending" /\ broadcast.todo = <<>>
  /\ broadcast' = [broadcast EXCEPT !.step = "done"]
  /\ UNCHANGED chatOwners

BroadcastNext ==
  \/ \E n \in 1 .. MaxTargets : \E chats \in [1 .. n -> ChatIds] :
       BroadcastRoute("list", [k \in 1 .. n |-> Named(chats[k])])
  \/ \E ids \in OwnerIdsByInterface : BroadcastRoute("interface", ids)
  \/ Notified \/ NotNotified \/ BroadcastResult

BroadcastSpec == BroadcastInit /\ [][BroadcastNext]_broadcastVars

-------------------------------------------------------------------------------
(* A broadcast accounts for every recipient, what it counts as sent was     *)
(* delivered, and no owner id gets the broadcast to an interface twice,     *)
(* however many chats it has: who gets it twice has two owner ids that are  *)
(* one number.                                                              *)
BroadcastAccounts ==
  LET delivered == broadcast.delivered
  IN /\ broadcast.sent + broadcast.failed + Len(broadcast.todo) = Len(broadcast.asked)
     /\ broadcast.sent <= Len(delivered)
     /\ broadcast.by = "interface" =>
          \A i, j \in DOMAIN delivered :
            delivered[i].owner = delivered[j].owner => i = j

-------------------------------------------------------------------------------
(* The inductive invariant.                                                 *)

(* Before its route is called a broadcast has done nothing.                 *)
NewBroadcast ==
  broadcast.step = "new" =>
    /\ broadcast.todo = <<>> /\ broadcast.asked = <<>> /\ broadcast.delivered = <<>>
    /\ broadcast.sent = 0 /\ broadcast.failed = 0

(* Of an interface, no owner id is still to be asked twice, nor after it    *)
(* was delivered to.                                                        *)
NobodyTwice ==
  broadcast.by = "interface" =>
    /\ \A i, j \in DOMAIN broadcast.todo :
         broadcast.todo[i].owner = broadcast.todo[j].owner => i = j
    /\ \A i \in DOMAIN broadcast.delivered, j \in DOMAIN broadcast.todo :
         broadcast.delivered[i].owner # broadcast.todo[j].owner

BroadcastInv ==
  BroadcastTypeOK /\ NewBroadcast /\ NobodyTwice /\ BroadcastAccounts
===============================================================================
