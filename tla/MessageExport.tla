---------------------------- MODULE MessageExport -----------------------------
(***************************************************************************)
(* The export of messages by the admin (src/app/admin/repository.py), page *)
(* by page, while messages are written, committed and cleared.             *)
(***************************************************************************)
EXTENDS Naturals, Sequences, FiniteSets, SequencesExt

CONSTANTS
  Messages,
  PageLimit,
  MaxClock      \* bound: the times of messages are 1 .. MaxClock

ASSUME ExportConstants ==
  PageLimit \in Nat \ {0} /\ MaxClock \in Nat \ {0} /\ IsFiniteSet(Messages)

VARIABLES
  clock,
  message,     \* chat_messages, and what is about to be written
  after,       \* the cursor of the client, 0: none yet
  exported,    \* history: what the client was given
  exportEnded, \* "yes": a page was empty
  late         \* history: messages that were committed behind the cursor

exportVars == <<clock, message, after, exported, exportEnded, late>>

ExportTypeOK ==
  /\ clock \in 1 .. MaxClock
  /\ message \in [Messages -> [state : {"none", "written", "listed", "deleted"},
                               time : 0 .. MaxClock]]
  /\ after \in 0 .. MaxClock /\ exported \in Seq(Messages)
  /\ exportEnded \in {"no", "yes"} /\ late \subseteq Messages

ExportInit ==
  /\ clock = 1
  /\ message = [m \in Messages |-> [state |-> "none", time |-> 0]]
  /\ after = 0 /\ exported = <<>> /\ exportEnded = "no" /\ late = {}

-------------------------------------------------------------------------------
ExportTick ==
  /\ clock < MaxClock /\ clock' = clock + 1
  /\ UNCHANGED <<message, after, exported, exportEnded, late>>

(* A message has the time of its construction ...                           *)
ConstructMessage(m) ==
  /\ message[m].state = "none"
  /\ message' = [message EXCEPT ![m] = [state |-> "written", time |-> clock]]
  /\ UNCHANGED <<clock, after, exported, exportEnded, late>>

(* ... and can be read after its commit.                                    *)
CommitMessage(m) ==
  /\ message[m].state = "written"
  /\ message' = [message EXCEPT ![m].state = "listed"]
  /\ late' = IF message[m].time <= after THEN late \cup {m} ELSE late
  /\ UNCHANGED <<clock, after, exported, exportEnded>>

(* The messages of a chat are cleared.                                      *)
SoftDelete(ms) ==
  /\ ms # {} /\ \A m \in ms : message[m].state = "listed"
  /\ message' = [m \in Messages |->
       IF m \in ms THEN [message[m] EXCEPT !.state = "deleted"] ELSE message[m]]
  /\ UNCHANGED <<clock, after, exported, exportEnded, late>>

(* Faulty variant: messages with the cursor's own time once more.           *)
RowsFrom(a) == {m \in Messages : message[m].state = "listed" /\ message[m].time >= a}

(* The rows a page is taken from, those after the cursor.                   *)
Rows(a) == {m \in Messages : message[m].state = "listed" /\ message[m].time > a}

(* ORDER BY created_at LIMIT: rows of one time in any order.                *)
Pages(rows) ==
  {p \in SetToAllKPermutations(rows) :
     /\ Len(p) = IF Cardinality(rows) < PageLimit THEN Cardinality(rows) ELSE PageLimit
     /\ \A i, j \in DOMAIN p : i < j => message[p[i]].time <= message[p[j]].time
     /\ \A i \in DOMAIN p, m \in rows \ {p[k] : k \in DOMAIN p} :
          message[p[i]].time <= message[m].time}

(* A page, and the time of its last row as the next cursor; an empty page   *)
(* has none, and the client stops.                                          *)
ExportMessages ==
  /\ exportEnded = "no"
  /\ \E page \in Pages(Rows(after)) :
       /\ exported' = exported \o page
       /\ after' = IF page = <<>> THEN after ELSE message[Last(page)].time
       /\ exportEnded' = IF page = <<>> THEN "yes" ELSE "no"
  /\ UNCHANGED <<clock, message, late>>

ExportNext ==
  \/ ExportTick \/ ExportMessages
  \/ \E m \in Messages : ConstructMessage(m) \/ CommitMessage(m)
  \/ \E ms \in SUBSET Messages : SoftDelete(ms)

ExportSpec == ExportInit /\ [][ExportNext]_exportVars

-------------------------------------------------------------------------------
(* The pages of an export give no message twice, in the order of their      *)
(* times, and when the last page is empty the export has every message that *)
(* is listed, but for one that was committed behind the cursor, one of the  *)
(* same time as a message that was given, and ones written after the end.   *)
ExportComplete ==
  /\ \A i, j \in DOMAIN exported :
       i < j => /\ exported[i] # exported[j]
                /\ message[exported[i]].time <= message[exported[j]].time
  /\ \A m \in Messages :
       message[m].state = "listed" /\ message[m].time <= after /\ m \notin late =>
         \E i \in DOMAIN exported :
           exported[i] = m \/ message[exported[i]].time = message[m].time

-------------------------------------------------------------------------------
(* The inductive invariant.                                                 *)

(* What the client was given had been committed, and is behind the cursor.  *)
ExportedBehindCursor ==
  \A i \in DOMAIN exported :
    /\ message[exported[i]].state \in {"listed", "deleted"}
    /\ message[exported[i]].time <= after

ExportInv == ExportTypeOK /\ ExportedBehindCursor /\ ExportComplete
===============================================================================
