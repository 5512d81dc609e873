------------------------------ MODULE ChatStore -------------------------------
(***************************************************************************)
(* The two repositories of chat messages: one JSONL file per chat          *)
(* (src/app/chat/repositories/json_repo.py) and a table                    *)
(* (src/app/chat/repositories/pg_repo.py), each with append, list and      *)
(* clear.  A message is a record with its time of creation in field at;    *)
(* the repositories look at nothing else of it.                            *)
(***************************************************************************)
EXTENDS Naturals, Sequences, FiniteSets

(* What a repository lists is a set of messages and the order they are in;  *)
(* of these, the last are the messages that fewer than limit others follow. *)
LastOf(listed, Precedes(_, _), limit) ==
  {m \in listed : Cardinality({n \in listed : Precedes(m, n)}) < limit}

-------------------------------------------------------------------------------
(* messages.jsonl: its lines.  A torn line is the beginning of one that was *)
(* never finished (disk full, power loss); what is appended next ends up on *)
(* the same line, which then parses as nothing.                             *)

MessageLine(m) == [kind |-> "message", message |-> m]
SoftDeleteLine == [kind |-> "soft_delete"]
TornLine == [kind |-> "torn"]
BrokenLine == [kind |-> "broken"]
Line(M) ==
  [kind : {"message"}, message : M] \cup {SoftDeleteLine, TornLine, BrokenLine}

Torn(file) == file # << >> /\ file[Len(file)].kind = "torn"

LineLost(file) == \E i \in DOMAIN file : file[i].kind = "broken"

(* Faulty variant: the file is opened for writing instead of appending.     *)
JsonAppendLineTruncates(file, line) == <<line>>

JsonAppendLine(file, line) ==
  IF Torn(file) THEN [file EXCEPT ![Len(file)] = BrokenLine]
  ELSE Append(file, line)

JsonAppendMessage(file, m) == JsonAppendLine(file, MessageLine(m))

JsonSoftDelete(file) == JsonAppendLine(file, SoftDeleteLine)

JsonTear(file) == IF Torn(file) THEN file ELSE Append(file, TornLine)

(* Faulty variant: cuts at the first marker instead of the last.            *)
EffectiveFromFirstMarker(file) ==
  LET markers == {j \in DOMAIN file : file[j].kind = "soft_delete"}
  IN  {i \in DOMAIN file : markers # {} => \E j \in markers : j < i}

(* The lines after the last marker.                                         *)
Effective(file) ==
  {i \in DOMAIN file : \A j \in DOMAIN file : file[j].kind = "soft_delete" => j < i}

(* Those that parse as a message.                                           *)
MessageLines(file) == {i \in Effective(file) : file[i].kind = "message"}

JsonListed(file) == {file[i].message : i \in MessageLines(file)}

JsonPrecedes(file, m, n) ==
  \E i, j \in MessageLines(file) :
    i < j /\ file[i].message = m /\ file[j].message = n

JsonList(file, limit) ==
  LastOf(JsonListed(file), LAMBDA m, n : JsonPrecedes(file, m, n), limit)

-------------------------------------------------------------------------------
(* The chat_messages rows of one chat; deleted stands for deleted_at.       *)

PgAppendMessage(rows, m) == rows \cup {[message |-> m, deleted |-> FALSE]}

PgSoftDelete(rows) == {[row EXCEPT !.deleted = TRUE] : row \in rows}

PgListed(rows) == {row.message : row \in {x \in rows : ~ x.deleted}}

(* Faulty variant: the rows are returned newest first.                      *)
PgPrecedesReversed(m, n) == m.at > n.at

PgPrecedes(m, n) == m.at < n.at

(* Faulty variant: the limit keeps the oldest rows.                         *)
PgListOldest(rows, limit) ==
  {m \in PgListed(rows) :
     Cardinality({n \in PgListed(rows) : PgPrecedes(n, m)}) < limit}

PgList(rows, limit) == LastOf(PgListed(rows), PgPrecedes, limit)
===============================================================================
