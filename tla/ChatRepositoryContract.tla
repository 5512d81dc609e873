------------------------ MODULE ChatRepositoryContract ------------------------
(***************************************************************************)
(* The contract of ChatRepository                                          *)
(* (src/tests/chat/test_repository_contract.py), for every short sequence  *)
(* of calls by one client: both repositories list, in order, the last      *)
(* messages appended since the last clear.                                 *)
(***************************************************************************)
EXTENDS ChatStore

CONSTANTS Texts, MaxCalls
ASSUME ContractConstants == MaxCalls \in Nat

VARIABLES file, rows, visible, calls

contractVars == <<file, rows, visible, calls>>

ContractInit == file = << >> /\ rows = {} /\ visible = << >> /\ calls = 0

AppendMessage(text) ==
  LET m == [at |-> calls + 1, text |-> text]
  IN  /\ calls < MaxCalls
      /\ file' = JsonAppendMessage(file, m)
      /\ rows' = PgAppendMessage(rows, m)
      /\ visible' = Append(visible, m)
      /\ calls' = calls + 1

SoftDeleteMessages ==
  /\ calls < MaxCalls
  /\ file' = JsonSoftDelete(file)
  /\ rows' = PgSoftDelete(rows)
  /\ visible' = << >>
  /\ calls' = calls + 1

ContractNext ==
  \/ SoftDeleteMessages
  \/ \E text \in Texts : AppendMessage(text)

ContractSpec == ContractInit /\ [][ContractNext]_contractVars

LastVisible(limit) ==
  {visible[i] : i \in {j \in DOMAIN visible : j + limit > Len(visible)}}

(* Both repositories list what the contract says, in the order of the       *)
(* calls, for every limit the API accepts.                                  *)
ContractKept ==
  /\ \A limit \in 1 .. MaxCalls :
       /\ JsonList(file, limit) = LastVisible(limit)
       /\ PgList(rows, limit) = LastVisible(limit)
  /\ \A i, j \in DOMAIN visible :
       /\ JsonPrecedes(file, visible[i], visible[j]) <=> i < j
       /\ PgPrecedes(visible[i], visible[j]) <=> i < j

(* The inductive invariant behind it: the file ends with a line for each    *)
(* message that is visible, the first of them after a marker; of the rows   *)
(* those that are not deleted are the visible messages.                     *)
Entry == [at : Nat, text : Texts]

ContractTypeOK ==
  /\ file \in Seq(Line(Entry)) /\ visible \in Seq(Entry) /\ calls \in Nat
  /\ rows \subseteq [message : Entry, deleted : BOOLEAN]

VisibleInOrder ==
  /\ \A i \in DOMAIN visible : visible[i].at <= calls
  /\ \A i, j \in DOMAIN visible : i < j => visible[i].at < visible[j].at

FileEndsWithVisible ==
  /\ ~ Torn(file) /\ Len(visible) <= Len(file)
  /\ MessageLines(file) = Len(file) - Len(visible) + 1 .. Len(file)
  /\ \A i \in DOMAIN visible :
       file[Len(file) - Len(visible) + i].message = visible[i]

RowsAreVisible == PgListed(rows) = {visible[i] : i \in DOMAIN visible}

ContractInv ==
  ContractTypeOK /\ VisibleInOrder /\ FileEndsWithVisible /\ RowsAreVisible
===============================================================================
