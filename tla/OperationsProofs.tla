--------------------------- MODULE OperationsProofs ----------------------------
(***************************************************************************)
(* Proofs about the alerts, for any number of requests, owners and faults  *)
(* and any limit; the export, for any set of messages and any page; the    *)
(* broadcast, for any chats and recipients; and the rate limit, for any    *)
(* number of requests, owners and minutes.                                 *)
(***************************************************************************)
EXTENDS RateLimit, AlertQueue, MessageExport, Broadcast,
        FiniteSetTheorems, SequenceTheorems, WellFoundedInduction, TLAPS

USE AlertConstants, ExportConstants, BroadcastConstants

-------------------------------------------------------------------------------
(* The alerts.                                                              *)

(* A set of numbers has a least element, and Min gives it.                  *)
LEMMA MinFound ==
  ASSUME NEW S \in SUBSET Nat, S # {}
  PROVE  Min(S) \in S /\ \A y \in S : Min(S) =< y
<1>1. PICK x \in S : \A y \in S : <<y, x>> \notin OpToRel(<, Nat)
  BY NatLessThanWellFounded, WFMin
<1>2. \A y \in S : ~ (y < x)
  BY <1>1 DEF OpToRel
<1>3. \E z \in S : \A y \in S : z =< y
  BY <1>2
<1> QED
  BY <1>3 DEF Min

(* The ids of the alerts, in the order they were created.                   *)
LEMMA IdsOfAlerts ==
  ASSUME AlertTypeOK
  PROVE  /\ Len(alerts) \in Nat /\ DOMAIN alerts = 1 .. Len(alerts)
         /\ DOMAIN alerts \subseteq Nat
         /\ \A i \in DOMAIN alerts : alerts[i] \in Alert
<1>1. alerts \in Seq(Alert)
  BY DEF AlertTypeOK
<1>2. Len(alerts) \in Nat /\ DOMAIN alerts = 1 .. Len(alerts)
  BY <1>1, LenProperties
<1>3. \A i \in 1 .. Len(alerts) : alerts[i] \in Alert
  BY <1>1, ElementOfSeq
<1> QED
  BY <1>2, <1>3

(* While there is a batch, one of it has its turn.                          *)
LEMMA CurrentFound ==
  ASSUME AlertTypeOK, batch # {}
  PROVE  Current \in batch /\ Current \in DOMAIN alerts
<1>1. DOMAIN alerts \subseteq Nat
  BY IdsOfAlerts
<1>2. batch \in SUBSET Nat
  BY <1>1 DEF AlertTypeOK
<1> QED
  BY <1>2, MinFound DEF Current, AlertTypeOK

(* A fetch finds something when something is pending.                       *)
LEMMA FetchFinds ==
  ASSUME AlertTypeOK, Pending # {}
  PROVE  /\ FetchPendingAlerts # {}
         /\ FetchPendingAlerts \subseteq Pending
<1>1. Pending \in SUBSET Nat
  BY IdsOfAlerts DEF Pending
<1>2. Min(Pending) \in Pending /\ \A y \in Pending : Min(Pending) =< y
  BY <1>1, MinFound
<1>3. {k \in Pending : k < Min(Pending)} = {}
  <2>1. \A y \in Pending : y \in Nat /\ Min(Pending) \in Nat
    BY <1>1, <1>2
  <2>2. \A y \in Pending : ~ (y < Min(Pending))
    BY <1>2, <2>1
  <2> QED
    BY <2>2
<1>4. Cardinality({k \in Pending : k < Min(Pending)}) = 0
  BY <1>3, FS_EmptySet
<1>5. Min(Pending) \in FetchPendingAlerts
  BY <1>2, <1>4 DEF FetchPendingAlerts, Oldest
<1> QED
  BY <1>5 DEF FetchPendingAlerts, Oldest

(* AlertInv holds with an empty table.                                      *)
LEMMA AlertsStart == AlertInit => AlertInv
<1> SUFFICES ASSUME AlertInit PROVE AlertInv
  OBVIOUS
<1>1. (CHOOSE o \in ChatOwners : TRUE) \in ChatOwners
  OBVIOUS
<1>2. DOMAIN alerts = {} /\ alerts \in Seq(Alert) /\ batch = {}
  <2>1. alerts = <<>> /\ batch = {}
    BY DEF AlertInit
  <2>2. <<>> \in Seq(Alert) /\ DOMAIN <<>> = {}
    BY EmptySeq
  <2> QED
    BY <2>1, <2>2
<1>3. AlertTypeOK
  <2>1. job \in [Jobs -> Job]
    BY <1>1 DEF AlertInit, Job
  <2>2. status \in [ChatOwners -> HandoffStatuses \cup {"no chat"}]
    BY DEF AlertInit, HandoffStatuses
  <2>3. drainStep = "fetch" /\ faults = 0
    BY DEF AlertInit
  <2>4. 0 \in 0 .. MaxFaults
    BY DEF AlertConstants
  <2> QED
    BY <1>2, <2>1, <2>2, <2>3, <2>4 DEF AlertTypeOK
<1>4. Announced
  BY DEF AlertInit, Announced
<1> QED
  BY <1>2, <1>3, <1>4 DEF AlertInit, AlertInv, NewIsNothing, BatchIsUnacknowledged,
                    SentIsAccounted, SentForAReason

(* A step of a request that stores no alert leaves the drain alone.         *)
LEMMA DrainUndisturbed ==
  ASSUME AlertInv, alerts' = alerts, UNCHANGED drainVars
  PROVE  BatchIsUnacknowledged' /\ SentIsAccounted' /\ SentForAReason'
BY DEF AlertInv, drainVars, BatchIsUnacknowledged, SentIsAccounted, InHand,
       Current, SentForAReason

(* A step of the drain leaves announced what was announced.                 *)
LEMMA AnnouncedKept ==
  ASSUME Announced, UNCHANGED <<job, status>>, DOMAIN alerts \subseteq DOMAIN alerts',
         \A i \in DOMAIN alerts : alerts'[i].by = alerts[i].by
  PROVE  Announced'
BY DEF Announced

(* A request that only changes its own record and stores no alert.          *)
LEMMA RequestKeeps ==
  ASSUME AlertInv, NEW j \in Jobs, NEW r \in Job, r.phase # "new",
         job' = [job EXCEPT ![j] = r], alerts' = alerts, UNCHANGED drainVars,
         status' \in [ChatOwners -> HandoffStatuses \cup {"no chat"}],
         \A o \in ChatOwners : status'[o] = "paused_for_human" =>
           \/ status[o] = "paused_for_human"
           \/ r.kind = "handoff" /\ r.owner = o /\ r.phase = "alerting",
         r.kind = "moderation" /\ r.result = "blocked" =>
           \/ r.phase = "alerting" \/ r.stored = "failed"
           \/ \E i \in DOMAIN alerts : alerts[i].by = j,
         \/ job[j].phase = "new"
         \/ /\ r.kind = job[j].kind /\ r.owner = job[j].owner
            /\ job[j].stored = "failed" => r.stored = "failed"
            /\ job[j].phase = "alerting" => r.stored = "failed"
  PROVE  AlertInv'
<1>1. AlertTypeOK /\ Announced /\ NewIsNothing
  BY DEF AlertInv
<1>2. /\ job \in [Jobs -> Job] /\ job'[j] = r
      /\ \A k \in Jobs : k # j => job'[k] = job[k]
  BY <1>1 DEF AlertTypeOK
<1>3. AlertTypeOK'
  BY <1>1, <1>2 DEF AlertTypeOK, drainVars
<1>4. NewIsNothing'
  BY <1>1, <1>2 DEF NewIsNothing
<1>5. Announced'
  <2>1. \A k \in Jobs :
          job'[k].kind = "moderation" /\ job'[k].result = "blocked" =>
            \/ job'[k].phase = "alerting" \/ job'[k].stored = "failed"
            \/ \E i \in DOMAIN alerts' : alerts'[i].by = k
    <3> SUFFICES ASSUME NEW k \in Jobs, job'[k].kind = "moderation",
                        job'[k].result = "blocked"
                 PROVE  \/ job'[k].phase = "alerting" \/ job'[k].stored = "failed"
                        \/ \E i \in DOMAIN alerts : alerts[i].by = k
      OBVIOUS
    <3>1. CASE k = j
      BY <1>2, <3>1
    <3>2. CASE k # j
      <4>1. job[k].kind = "moderation" /\ job[k].result = "blocked" =>
              \/ job[k].phase = "alerting" \/ job[k].stored = "failed"
              \/ \E i \in DOMAIN alerts : alerts[i].by = k
        BY <1>1 DEF Announced
      <4>2. job'[k] = job[k]
        BY <1>2, <3>2
      <4> QED
        BY <4>1, <4>2
    <3> QED
      BY <3>1, <3>2
  <2>2. ASSUME NEW o \in ChatOwners, status'[o] = "paused_for_human"
        PROVE  \E k \in Jobs :
                 /\ job'[k].kind = "handoff" /\ job'[k].owner = o
                 /\ \/ job'[k].phase = "alerting" \/ job'[k].stored = "failed"
                    \/ \E i \in DOMAIN alerts' : alerts'[i].by = k
    <3>1. CASE r.kind = "handoff" /\ r.owner = o /\ r.phase = "alerting"
      BY <1>2, <3>1
    <3>2. CASE status[o] = "paused_for_human"
      <4>1. PICK k \in Jobs :
              /\ job[k].kind = "handoff" /\ job[k].owner = o
              /\ \/ job[k].phase = "alerting" \/ job[k].stored = "failed"
                 \/ \E i \in DOMAIN alerts : alerts[i].by = k
        BY <1>1, <3>2 DEF Announced
      <4>2. CASE k # j
        BY <1>2, <4>1, <4>2
      <4>3. CASE k = j
        <5>1. job[j].phase # "new"
          BY <1>1, <4>1, <4>3 DEF NewIsNothing
        <5> QED
          BY <1>2, <4>1, <4>3, <5>1
      <4> QED
        BY <4>2, <4>3
    <3> QED
      BY <2>2, <3>1, <3>2
  <2> QED
    BY <2>1, <2>2 DEF Announced
<1> QED
  BY <1>3, <1>4, <1>5, DrainUndisturbed DEF AlertInv

(* A check of an input keeps AlertInv, with any verdict.                    *)
LEMMA CheckInputKeeps ==
  ASSUME AlertInv, NEW j \in Jobs,
         NEW text \in {"empty", "listed", "for OpenAI", "unjudged"},
         CheckInput(j, text)
  PROVE  AlertInv'
<1>1. AlertTypeOK
  BY DEF AlertInv
<1>2. PICK r \in Job :
        /\ job' = [job EXCEPT ![j] = r]
        /\ r.phase # "new"
        /\ r.result = "blocked" => r.phase = "alerting"
        /\ r.kind = "moderation"
  <2> DEFINE r == [job[j] EXCEPT !.kind = "moderation",
                     !.phase = CASE text = "listed" -> "alerting"
                                 [] text = "for OpenAI" -> "classifying"
                                 [] OTHER -> "done",
                     !.result = CASE text = "listed" -> "blocked"
                                  [] text = "for OpenAI" -> "none"
                                  [] OTHER -> "allowed"]
  <2>1. job[j] \in Job
    BY <1>1 DEF AlertTypeOK
  <2>2. r \in Job
    BY <2>1 DEF Job
  <2>3. job' = [job EXCEPT ![j] = r]
    BY <1>1 DEF CheckInput, AlertTypeOK
  <2>4. r.phase # "new" /\ (r.result = "blocked" => r.phase = "alerting") /\ r.kind = "moderation"
    BY <2>1 DEF Job
  <2> QED
    BY <2>2, <2>3, <2>4
<1>3. alerts' = alerts /\ status' = status /\ UNCHANGED drainVars /\ job[j].phase = "new"
  BY DEF CheckInput
<1>4. status' \in [ChatOwners -> HandoffStatuses \cup {"no chat"}]
  BY <1>1, <1>3 DEF AlertTypeOK
<1> QED
  BY <1>2, <1>3, <1>4, RequestKeeps

(* OpenAI's verdict, or its silence.                                        *)
LEMMA VerdictKeeps ==
  ASSUME AlertInv, NEW j \in Jobs, Flagged(j) \/ NotFlagged(j)
  PROVE  AlertInv'
<1>1. AlertTypeOK
  BY DEF AlertInv
<1>2. /\ alerts' = alerts /\ status' = status /\ UNCHANGED drainVars
      /\ job[j].phase = "classifying" /\ job[j] \in Job
  BY <1>1 DEF Flagged, NotFlagged, AlertTypeOK
<1>3. PICK r \in Job :
        /\ job' = [job EXCEPT ![j] = r]
        /\ r.phase \in {"alerting", "done"}
        /\ r.result = "blocked" => r.phase = "alerting"
        /\ r.kind = job[j].kind /\ r.owner = job[j].owner /\ r.stored = job[j].stored
  <2>1. CASE Flagged(j)
    <3> DEFINE r == [job[j] EXCEPT !.phase = "alerting", !.result = "blocked"]
    <3>1. r \in Job /\ r.phase = "alerting" /\ r.kind = job[j].kind
          /\ r.owner = job[j].owner /\ r.stored = job[j].stored
      BY <1>2 DEF Job
    <3>2. job' = [job EXCEPT ![j] = r]
      BY <1>1, <2>1 DEF Flagged, AlertTypeOK
    <3> QED
      BY <3>1, <3>2
  <2>2. CASE NotFlagged(j)
    <3> DEFINE r == [job[j] EXCEPT !.phase = "done", !.result = "allowed"]
    <3>1. r \in Job /\ r.phase = "done" /\ r.result = "allowed" /\ r.kind = job[j].kind
          /\ r.owner = job[j].owner /\ r.stored = job[j].stored
      BY <1>2 DEF Job
    <3>2. job' = [job EXCEPT ![j] = r]
      BY <1>1, <2>2 DEF NotFlagged, AlertTypeOK
    <3> QED
      BY <3>1, <3>2
  <2> QED
    BY <2>1, <2>2
<1>4. status' \in [ChatOwners -> HandoffStatuses \cup {"no chat"}]
  BY <1>1, <1>2 DEF AlertTypeOK
<1> QED
  BY <1>2, <1>3, <1>4, RequestKeeps

(* A handoff, accepted, refused or failed.                                  *)
LEMMA HandoffKeeps ==
  ASSUME AlertInv, NEW j \in Jobs, NEW o \in ChatOwners,
         \/ \E s \in HandoffStatuses \cup {"unknown"} : SetHandoffStatus(j, o, s)
         \/ HandoffFails(j, o)
  PROVE  AlertInv'
<1>1. AlertTypeOK /\ job[j] \in Job
  BY DEF AlertInv, AlertTypeOK
<1>2. CASE HandoffFails(j, o)
  <2> DEFINE r == [job[j] EXCEPT !.kind = "handoff", !.owner = o,
                                 !.phase = "done", !.result = "error"]
  <2>1. r \in Job /\ r.phase = "done" /\ r.kind = "handoff"
    BY <1>1 DEF Job
  <2>2. job' = [job EXCEPT ![j] = r]
    BY <1>1, <1>2 DEF HandoffFails, AlertTypeOK
  <2>3. /\ alerts' = alerts /\ status' = status /\ UNCHANGED drainVars
        /\ job[j].phase = "new"
    BY <1>2 DEF HandoffFails
  <2>4. status' \in [ChatOwners -> HandoffStatuses \cup {"no chat"}]
    BY <1>1, <2>3 DEF AlertTypeOK
  <2>5. PICK q \in Job : q = r
    BY <2>1
  <2> QED
    BY <2>1, <2>2, <2>3, <2>4, <2>5, RequestKeeps
<1>3. ASSUME NEW s \in HandoffStatuses \cup {"unknown"}, SetHandoffStatus(j, o, s)
      PROVE  AlertInv'
  <2> DEFINE affected == s \in HandoffStatuses /\ status[o] # "no chat"
             alerting == affected /\ s = "paused_for_human"
             r == [job[j] EXCEPT !.kind = "handoff", !.owner = o,
                     !.phase = IF alerting THEN "alerting" ELSE "done",
                     !.result = IF alerting THEN "none"
                                ELSE IF s \in HandoffStatuses THEN "ok" ELSE "error"]
  <2>1. /\ r \in Job /\ r.kind = "handoff" /\ r.owner = o
        /\ r.phase = IF alerting THEN "alerting" ELSE "done"
    BY <1>1 DEF Job
  <2>2. job' = [job EXCEPT ![j] = r]
    BY <1>3 DEF SetHandoffStatus
  <2>3. /\ alerts' = alerts /\ UNCHANGED drainVars /\ job[j].phase = "new"
        /\ status' = IF affected THEN [status EXCEPT ![o] = s] ELSE status
    BY <1>3 DEF SetHandoffStatus
  <2>4. status' \in [ChatOwners -> HandoffStatuses \cup {"no chat"}]
    BY <1>1, <2>3 DEF AlertTypeOK
  <2>5. ASSUME NEW p \in ChatOwners, status'[p] = "paused_for_human"
        PROVE  status[p] = "paused_for_human" \/ (alerting /\ p = o)
    BY <1>1, <2>3, <2>5 DEF AlertTypeOK
  <2>6. PICK q \in Job : q = r
    BY <2>1
  <2>7. \A p \in ChatOwners : status'[p] = "paused_for_human" =>
          \/ status[p] = "paused_for_human"
          \/ q.kind = "handoff" /\ q.owner = p /\ q.phase = "alerting"
    BY <2>1, <2>5, <2>6
  <2>8. q.phase # "new" /\ q.kind = "handoff" /\ job' = [job EXCEPT ![j] = q]
    BY <2>1, <2>2, <2>6
  <2> HIDE DEF r
  <2> QED
    BY <2>3, <2>4, <2>7, <2>8, RequestKeeps
<1> QED
  BY <1>2, <1>3

(* An alert that could not be stored, or that the user was told of.         *)
LEMMA RequestEndsKeeps ==
  ASSUME AlertInv, NEW j \in Jobs, FireFails(j) \/ NotifyUser(j)
  PROVE  AlertInv'
<1>1. AlertTypeOK /\ Announced /\ job[j] \in Job
  BY DEF AlertInv, AlertTypeOK
<1>2. /\ alerts' = alerts /\ status' = status /\ UNCHANGED drainVars
  BY DEF FireFails, NotifyUser
<1>3. status' \in [ChatOwners -> HandoffStatuses \cup {"no chat"}]
  BY <1>1, <1>2 DEF AlertTypeOK
<1>4. CASE FireFails(j)
  <2> DEFINE r == [job[j] EXCEPT !.phase = "done", !.stored = "failed",
                     !.result = IF job[j].kind = "handoff" THEN "error" ELSE @]
  <2>1. /\ r \in Job /\ r.phase = "done" /\ r.stored = "failed"
        /\ r.kind = job[j].kind /\ r.owner = job[j].owner
    BY <1>1 DEF Job
  <2>2. job' = [job EXCEPT ![j] = r]
    BY <1>1, <1>4 DEF FireFails, AlertTypeOK
  <2>3. PICK q \in Job : q = r
    BY <2>1
  <2> QED
    BY <1>2, <1>3, <2>1, <2>2, <2>3, RequestKeeps
<1>5. CASE NotifyUser(j)
  <2> DEFINE r == [job[j] EXCEPT !.phase = "done", !.result = "ok"]
  <2>1. /\ r \in Job /\ r.phase = "done" /\ r.result = "ok"
        /\ r.kind = job[j].kind /\ r.owner = job[j].owner /\ r.stored = job[j].stored
    BY <1>1 DEF Job
  <2>2. job' = [job EXCEPT ![j] = r] /\ job[j].phase = "notifying"
    BY <1>1, <1>5 DEF NotifyUser, AlertTypeOK
  <2>3. PICK q \in Job : q = r
    BY <2>1
  <2> QED
    BY <1>2, <1>3, <2>1, <2>2, <2>3, RequestKeeps
<1> QED
  BY <1>4, <1>5

(* A stored alert: an announcement, and nothing the drain has seen.         *)
LEMMA FireAlertKeeps ==
  ASSUME AlertInv, NEW j \in Jobs, NEW deliverable \in BOOLEAN,
         FireAlert(j, deliverable)
  PROVE  AlertInv'
<1>1. AlertTypeOK /\ Announced /\ NewIsNothing /\ job[j] \in Job
  BY DEF AlertInv, AlertTypeOK
<1>2. PICK a \in Alert :
        /\ alerts' = Append(alerts, a)
        /\ a.by = j /\ a.acked = "no" /\ a.sent = 0 /\ a.unacknowledged = 0
  <2> DEFINE a == [by |-> j, deliverable |-> deliverable, acked |-> "no",
                   sent |-> 0, unacknowledged |-> 0]
  <2>1. a \in Alert
    BY DEF Alert
  <2> QED
    BY <2>1 DEF FireAlert
<1>3. PICK r \in Job :
        /\ job' = [job EXCEPT ![j] = r] /\ r.phase \in {"notifying", "done"}
        /\ r.kind = job[j].kind /\ r.owner = job[j].owner
  <2> DEFINE r == [job[j] EXCEPT !.phase = AfterAlert(j), !.stored = "yes"]
  <2>1. AfterAlert(j) \in {"notifying", "done"}
    BY DEF AfterAlert
  <2>2. r \in Job /\ r.phase \in {"notifying", "done"}
        /\ r.kind = job[j].kind /\ r.owner = job[j].owner
    BY <1>1, <2>1 DEF Job
  <2>3. job' = [job EXCEPT ![j] = r]
    BY <1>1 DEF FireAlert, AlertTypeOK
  <2> QED
    BY <2>2, <2>3
<1>4. /\ status' = status /\ drainStep' = drainStep /\ batch' = batch
      /\ faults' = faults
  BY DEF FireAlert, drainVars
<1>5. /\ Len(alerts) \in Nat /\ DOMAIN alerts = 1 .. Len(alerts)
      /\ alerts' \in Seq(Alert) /\ DOMAIN alerts' = 1 .. Len(alerts) + 1
      /\ \A i \in DOMAIN alerts : alerts'[i] = alerts[i]
      /\ alerts'[Len(alerts) + 1] = a
  <2>1. alerts \in Seq(Alert) /\ DOMAIN alerts = 1 .. Len(alerts) /\ Len(alerts) \in Nat
    BY <1>1, IdsOfAlerts DEF AlertTypeOK
  <2>2. /\ Append(alerts, a) \in Seq(Alert) /\ Len(Append(alerts, a)) = Len(alerts) + 1
        /\ \A i \in 1 .. Len(alerts) : Append(alerts, a)[i] = alerts[i]
        /\ Append(alerts, a)[Len(alerts) + 1] = a
    BY <2>1, AppendProperties
  <2>3. DOMAIN alerts' = 1 .. Len(alerts')
    BY <1>2, <2>2, LenProperties
  <2> QED
    BY <1>2, <2>1, <2>2, <2>3
<1>6. /\ job'[j] = r /\ \A k \in Jobs : k # j => job'[k] = job[k]
      /\ job' \in [Jobs -> Job]
  BY <1>1, <1>3 DEF AlertTypeOK
<1>7. AlertTypeOK'
  <2>1. batch' \subseteq DOMAIN alerts'
    <3>1. batch' \subseteq 1 .. Len(alerts)
      BY <1>1, <1>4, <1>5 DEF AlertTypeOK
    <3>2. 1 .. Len(alerts) \subseteq 1 .. Len(alerts) + 1
      BY <1>5
    <3> QED
      BY <1>5, <3>1, <3>2
  <2> QED
    BY <1>1, <1>4, <1>5, <1>6, <2>1 DEF AlertTypeOK
<1>8. NewIsNothing'
  BY <1>1, <1>3, <1>6 DEF NewIsNothing
<1>9. Announced'
  <2>1. Len(alerts) + 1 \in DOMAIN alerts' /\ alerts'[Len(alerts) + 1].by = j
    BY <1>2, <1>5
  <2>2. ASSUME NEW k \in Jobs, \E i \in DOMAIN alerts : alerts[i].by = k
        PROVE  \E i \in DOMAIN alerts' : alerts'[i].by = k
    <3>1. PICK i \in DOMAIN alerts : alerts[i].by = k
      BY <2>2
    <3>2. i \in DOMAIN alerts' /\ alerts'[i].by = k
      BY <1>5, <3>1
    <3> QED
      BY <3>2
  <2>3. ASSUME NEW k \in Jobs, job'[k].kind = "moderation", job'[k].result = "blocked"
        PROVE  \/ job'[k].phase = "alerting" \/ job'[k].stored = "failed"
               \/ \E i \in DOMAIN alerts' : alerts'[i].by = k
    <3>1. CASE k = j
      BY <2>1, <3>1
    <3>2. CASE k # j
      <4>1. job[k].kind = "moderation" /\ job[k].result = "blocked" =>
              \/ job[k].phase = "alerting" \/ job[k].stored = "failed"
              \/ \E i \in DOMAIN alerts : alerts[i].by = k
        BY <1>1 DEF Announced
      <4>2. job'[k] = job[k]
        BY <1>6, <3>2
      <4> QED
        BY <2>2, <2>3, <4>1, <4>2
    <3> QED
      BY <3>1, <3>2
  <2>4. ASSUME NEW o \in ChatOwners, status'[o] = "paused_for_human"
        PROVE  \E k \in Jobs :
                 /\ job'[k].kind = "handoff" /\ job'[k].owner = o
                 /\ \/ job'[k].phase = "alerting" \/ job'[k].stored = "failed"
                    \/ \E i \in DOMAIN alerts' : alerts'[i].by = k
    <3>1. PICK k \in Jobs :
            /\ job[k].kind = "handoff" /\ job[k].owner = o
            /\ \/ job[k].phase = "alerting" \/ job[k].stored = "failed"
               \/ \E i \in DOMAIN alerts : alerts[i].by = k
      BY <1>1, <1>4, <2>4 DEF Announced
    <3>2. CASE k = j
      BY <1>3, <1>6, <2>1, <3>1, <3>2
    <3>3. CASE k # j
      <4>1. job'[k] = job[k]
        BY <1>6, <3>3
      <4> QED
        BY <2>2, <3>1, <4>1
    <3> QED
      BY <3>2, <3>3
  <2> QED
    BY <2>3, <2>4 DEF Announced
<1>10. Current' = Current
  BY <1>4 DEF Current
<1>11. BatchIsUnacknowledged'
  <2>1. \A i \in batch : i \in DOMAIN alerts
    BY <1>1 DEF AlertTypeOK
  <2> QED
    BY <1>4, <1>5, <2>1 DEF AlertInv, BatchIsUnacknowledged
<1>12. drainStep' = "ack" => Current' # Len(alerts) + 1
  <2> SUFFICES ASSUME drainStep' = "ack" PROVE Current' # Len(alerts) + 1
    OBVIOUS
  <2>1. batch # {}
    BY <1>4 DEF AlertInv, BatchIsUnacknowledged
  <2>2. Current \in 1 .. Len(alerts)
    BY <1>1, <1>5, <2>1, CurrentFound
  <2> QED
    BY <1>5, <1>10, <2>2
<1>13. SentIsAccounted'
  <2> SUFFICES ASSUME NEW i \in DOMAIN alerts'
               PROVE  /\ InHand(i)' => alerts'[i].sent > 0
                      /\ alerts'[i].acked # "drain" /\ ~ InHand(i)' =>
                           alerts'[i].sent <= alerts'[i].unacknowledged
    BY DEF SentIsAccounted
  <2>1. CASE i \in DOMAIN alerts
    <3>1. InHand(i)' <=> InHand(i)
      BY <1>4, <1>10 DEF InHand
    <3>2. /\ InHand(i) => alerts[i].sent > 0
          /\ alerts[i].acked # "drain" /\ ~ InHand(i) =>
               alerts[i].sent <= alerts[i].unacknowledged
      BY <2>1 DEF AlertInv, SentIsAccounted
    <3>3. alerts'[i] = alerts[i]
      BY <1>5, <2>1
    <3> QED
      BY <3>1, <3>2, <3>3
  <2>2. CASE i = Len(alerts) + 1
    <3>1. ~ InHand(i)'
      BY <1>12, <2>2 DEF InHand
    <3>2. alerts'[i].sent = 0 /\ alerts'[i].unacknowledged = 0
      BY <1>2, <1>5, <2>2
    <3> QED
      BY <3>1, <3>2
  <2> QED
    BY <1>5, <2>1, <2>2
<1>14. SentForAReason'
  BY <1>2, <1>5 DEF AlertInv, SentForAReason
<1> QED
  BY <1>7, <1>8, <1>9, <1>11, <1>13, <1>14 DEF AlertInv

(* One alert of the table is changed.                                       *)
LEMMA AlertUpdated ==
  ASSUME AlertTypeOK, NEW c \in DOMAIN alerts, NEW a \in Alert,
         alerts' = [alerts EXCEPT ![c] = a]
  PROVE  /\ alerts' \in Seq(Alert) /\ DOMAIN alerts' = DOMAIN alerts
         /\ alerts'[c] = a
         /\ \A i \in DOMAIN alerts : i # c => alerts'[i] = alerts[i]
<1>1. alerts \in Seq(Alert) /\ DOMAIN alerts = 1 .. Len(alerts)
  BY IdsOfAlerts DEF AlertTypeOK
<1>2. c \in 1 .. Len(alerts)
  BY <1>1
<1>3. /\ alerts' \in Seq(Alert) /\ Len(alerts') = Len(alerts)
      /\ \A i \in 1 .. Len(alerts) : alerts'[i] = IF i = c THEN a ELSE alerts[i]
  BY <1>1, <1>2, ExceptSeq
<1>4. DOMAIN alerts' = 1 .. Len(alerts')
  BY <1>3, LenProperties
<1> QED
  BY <1>1, <1>3, <1>4

(* What the drain does with the table, the batch and its place: it changes  *)
(* nothing, or the alert it has in hand.                                    *)
LEMMA DrainKeeps ==
  ASSUME AlertInv, UNCHANGED <<job, status>>, faults' \in 0 .. MaxFaults,
         drainStep' \in {"fetch", "send", "ack"}, batch' \subseteq DOMAIN alerts,
         drainStep' = "fetch" <=> batch' = {},
         \/ alerts' = alerts
         \/ \E c \in DOMAIN alerts, a \in Alert :
              alerts' = [alerts EXCEPT ![c] = a] /\ a.by = alerts[c].by,
         \A i \in batch' : alerts'[i].acked # "drain",
         SentIsAccounted', SentForAReason'
  PROVE  AlertInv'
<1>1. AlertTypeOK /\ Announced /\ NewIsNothing
  BY DEF AlertInv
<1>2. /\ alerts' \in Seq(Alert) /\ DOMAIN alerts' = DOMAIN alerts
      /\ \A i \in DOMAIN alerts : alerts'[i].by = alerts[i].by
  <2>1. CASE alerts' = alerts
    BY <1>1, <2>1 DEF AlertTypeOK
  <2>2. ASSUME NEW c \in DOMAIN alerts, NEW a \in Alert,
               alerts' = [alerts EXCEPT ![c] = a], a.by = alerts[c].by
        PROVE  /\ alerts' \in Seq(Alert) /\ DOMAIN alerts' = DOMAIN alerts
               /\ \A i \in DOMAIN alerts : alerts'[i].by = alerts[i].by
    BY <1>1, <2>2, AlertUpdated
  <2> QED
    BY <2>1, <2>2
<1>3. AlertTypeOK'
  BY <1>1, <1>2 DEF AlertTypeOK
<1>4. Announced'
  BY <1>1, <1>2, AnnouncedKept
<1>5. NewIsNothing'
  BY <1>1 DEF NewIsNothing
<1>6. BatchIsUnacknowledged'
  BY DEF BatchIsUnacknowledged
<1> QED
  BY <1>3, <1>4, <1>5, <1>6 DEF AlertInv

(* The parts of AlertInv the steps of the drain start from.                 *)
LEMMA DrainStarts ==
  ASSUME AlertInv
  PROVE  /\ AlertTypeOK /\ faults \in 0 .. MaxFaults /\ batch \subseteq DOMAIN alerts
         /\ drainStep # "fetch" =>
              /\ Current \in batch /\ Current \in DOMAIN alerts
              /\ alerts[Current] \in Alert /\ alerts[Current].acked # "drain"
         /\ drainStep = "fetch" <=> batch = {}
         /\ \A i \in batch : alerts[i].acked # "drain"
<1>1. /\ AlertTypeOK /\ BatchIsUnacknowledged
  BY DEF AlertInv
<1>2. ASSUME drainStep # "fetch"
      PROVE  /\ Current \in batch /\ Current \in DOMAIN alerts
             /\ alerts[Current] \in Alert /\ alerts[Current].acked # "drain"
  <2>1. batch # {}
    BY <1>1, <1>2 DEF BatchIsUnacknowledged
  <2>2. Current \in batch /\ Current \in DOMAIN alerts
    BY <1>1, <2>1, CurrentFound
  <2> QED
    BY <1>1, <2>2, IdsOfAlerts DEF BatchIsUnacknowledged
<1> QED
  BY <1>1, <1>2 DEF AlertTypeOK, BatchIsUnacknowledged

(* Done leaves no alert in hand.                                            *)
LEMMA DoneLeaves ==
  ASSUME NEW rest_, Done(rest_)
  PROVE  /\ batch' = rest_ /\ drainStep' \in {"fetch", "send"}
         /\ drainStep' = "fetch" <=> rest_ = {}
BY DEF Done

(* A batch is fetched.                                                      *)
LEMMA FetchKeeps == ASSUME AlertInv, Fetch PROVE AlertInv'
<1>1. /\ alerts' = alerts /\ UNCHANGED <<job, status>> /\ faults' = faults
      /\ drainStep = "fetch" /\ drainStep' = "send" /\ Pending # {}
      /\ batch' = FetchPendingAlerts
  BY DEF Fetch
<1>2. batch' # {} /\ batch' \subseteq Pending
  BY <1>1, FetchFinds DEF AlertInv
<1>3. \A i \in batch' : i \in DOMAIN alerts /\ alerts'[i].acked # "drain"
  BY <1>1, <1>2 DEF Pending
<1>4. SentIsAccounted' /\ SentForAReason'
  BY <1>1 DEF AlertInv, SentIsAccounted, SentForAReason, InHand
<1>5. faults' \in 0 .. MaxFaults
  BY <1>1, DrainStarts
<1> QED
  BY <1>1, <1>2, <1>3, <1>4, <1>5, DrainKeeps

(* The alert whose turn it is is sent.                                      *)
LEMMA SendAlertKeeps == ASSUME AlertInv, SendAlert PROVE AlertInv'
<1> DEFINE c == Current
<1>1. /\ UNCHANGED <<job, status>> /\ faults' = faults /\ batch' = batch
      /\ drainStep = "send" /\ drainStep' = "ack"
      /\ alerts' = [alerts EXCEPT ![c].sent = @ + 1]
  BY DEF SendAlert
<1>2. /\ AlertTypeOK /\ faults \in 0 .. MaxFaults /\ batch \subseteq DOMAIN alerts
      /\ c \in batch /\ c \in DOMAIN alerts /\ alerts[c] \in Alert
      /\ alerts[c].acked # "drain" /\ batch # {}
      /\ \A i \in batch : alerts[i].acked # "drain"
  BY <1>1, DrainStarts
<1>3. PICK a \in Alert :
        /\ a.by = alerts[c].by /\ a.acked = alerts[c].acked
        /\ a.sent = alerts[c].sent + 1
        /\ a.unacknowledged = alerts[c].unacknowledged
        /\ alerts' = [alerts EXCEPT ![c] = a]
  <2> DEFINE a == [alerts[c] EXCEPT !.sent = @ + 1]
  <2>1. a \in Alert /\ a.by = alerts[c].by /\ a.acked = alerts[c].acked
        /\ a.sent = alerts[c].sent + 1 /\ a.unacknowledged = alerts[c].unacknowledged
    BY <1>2 DEF Alert
  <2>2. alerts' = [alerts EXCEPT ![c] = a]
    BY <1>1
  <2> QED
    BY <2>1, <2>2
<1>4. /\ DOMAIN alerts' = DOMAIN alerts /\ alerts'[c] = a
      /\ \A i \in DOMAIN alerts : i # c => alerts'[i] = alerts[i]
  BY <1>2, <1>3, AlertUpdated
<1>5. alerts[c].sent \in Nat /\ alerts[c].sent <= alerts[c].unacknowledged
      /\ alerts[c].unacknowledged \in Nat
  BY <1>1, <1>2 DEF AlertInv, SentIsAccounted, InHand, Alert
<1>6. Current' = c
  BY <1>1 DEF Current
<1>7. SentIsAccounted'
  <2> SUFFICES ASSUME NEW i \in DOMAIN alerts
               PROVE  /\ InHand(i)' => alerts'[i].sent > 0
                      /\ alerts'[i].acked # "drain" /\ ~ InHand(i)' =>
                           alerts'[i].sent <= alerts'[i].unacknowledged
    BY <1>4 DEF SentIsAccounted
  <2>1. InHand(i)' <=> i = c
    BY <1>1, <1>6 DEF InHand
  <2>2. ~ InHand(i)
    BY <1>1 DEF InHand
  <2>3. alerts[i].acked # "drain" => alerts[i].sent <= alerts[i].unacknowledged
    BY <2>2 DEF AlertInv, SentIsAccounted
  <2> QED
    BY <1>3, <1>4, <1>5, <2>1, <2>3
<1>8. SentForAReason'
  BY <1>2, <1>3, <1>4, <1>5 DEF AlertInv, SentForAReason
<1>9. \A i \in batch' : alerts'[i].acked # "drain"
  BY <1>1, <1>2, <1>3, <1>4
<1> QED
  BY <1>1, <1>2, <1>3, <1>7, <1>8, <1>9, DrainKeeps

(* The alert is not sent, or that is not known: the next one has its turn.  *)
LEMMA SendFailsKeeps == ASSUME AlertInv, SendFails PROVE AlertInv'
<1> DEFINE c == Current
<1>1. /\ UNCHANGED <<job, status>> /\ drainStep = "send"
      /\ faults' = faults \/ (faults < MaxFaults /\ faults' = faults + 1)
      /\ Done(batch \ {c})
      /\ \/ alerts' = alerts
         \/ alerts' = [alerts EXCEPT ![c].sent = @ + 1, ![c].unacknowledged = @ + 1]
  BY DEF SendFails
<1>2. /\ batch' = batch \ {c} /\ drainStep' \in {"fetch", "send"}
      /\ drainStep' = "fetch" <=> batch' = {}
  BY <1>1, DoneLeaves
<1>3. /\ AlertTypeOK /\ faults \in 0 .. MaxFaults /\ batch \subseteq DOMAIN alerts
      /\ c \in DOMAIN alerts /\ alerts[c] \in Alert
      /\ \A i \in batch : alerts[i].acked # "drain"
  BY <1>1, DrainStarts
<1>4. faults' \in 0 .. MaxFaults
  BY <1>1, <1>3
<1>5. CASE alerts' = alerts
  <2>1. SentIsAccounted' /\ SentForAReason'
    BY <1>1, <1>2, <1>5 DEF AlertInv, SentIsAccounted, SentForAReason, InHand
  <2> QED
    BY <1>1, <1>2, <1>3, <1>4, <1>5, <2>1, DrainKeeps
<1>6. CASE alerts' = [alerts EXCEPT ![c].sent = @ + 1, ![c].unacknowledged = @ + 1]
  <2> DEFINE a == [alerts[c] EXCEPT !.sent = alerts[c].sent + 1,
                                    !.unacknowledged = alerts[c].unacknowledged + 1]
  <2>0. /\ alerts[c].sent \in Nat /\ alerts[c].unacknowledged \in Nat
        /\ alerts[c].sent + 1 \in Nat /\ alerts[c].unacknowledged + 1 \in Nat
    BY <1>3 DEF Alert
  <2>1. /\ a \in Alert /\ a.by = alerts[c].by /\ a.acked = alerts[c].acked
        /\ a.sent = alerts[c].sent + 1
        /\ a.unacknowledged = alerts[c].unacknowledged + 1
        /\ alerts[c].sent \in Nat /\ alerts[c].unacknowledged \in Nat
    BY <1>3, <2>0 DEF Alert
  <2>2. alerts' = [alerts EXCEPT ![c] = a]
    BY <1>6
  <2> HIDE DEF a
  <2>3. /\ DOMAIN alerts' = DOMAIN alerts /\ alerts'[c] = a
        /\ \A i \in DOMAIN alerts : i # c => alerts'[i] = alerts[i]
    BY <1>3, <2>1, <2>2, AlertUpdated
  <2>4. \A i \in DOMAIN alerts : ~ InHand(i) /\ ~ InHand(i)'
    BY <1>1, <1>2 DEF InHand
  <2>5. SentIsAccounted'
    BY <2>1, <2>3, <2>4 DEF AlertInv, SentIsAccounted
  <2>6. SentForAReason'
    BY <2>1, <2>3 DEF AlertInv, SentForAReason
  <2>7. \A i \in batch' : alerts'[i].acked # "drain"
    BY <1>2, <1>3, <2>1, <2>3
  <2> QED
    BY <1>1, <1>2, <1>3, <1>4, <2>1, <2>2, <2>5, <2>6, <2>7, DrainKeeps
<1> QED
  BY <1>1, <1>5, <1>6

(* The alert that was sent is acknowledged, or that failed, or the bot      *)
(* stopped before: either way it is no longer in hand.                      *)
LEMMA AfterSending ==
  ASSUME AlertInv, drainStep = "ack", UNCHANGED <<job, status>>,
         faults' \in 0 .. MaxFaults, Done(batch') /\ batch' \subseteq batch \ {Current},
         NEW a \in Alert, a.by = alerts[Current].by, a.sent = alerts[Current].sent,
         \/ a.acked = "drain" /\ a.unacknowledged = alerts[Current].unacknowledged
         \/ /\ a.acked = alerts[Current].acked
            /\ a.unacknowledged = alerts[Current].unacknowledged + 1,
         alerts' = [alerts EXCEPT ![Current] = a]
  PROVE  AlertInv'
<1> DEFINE c == Current
<1>1. /\ AlertTypeOK /\ batch \subseteq DOMAIN alerts
      /\ c \in batch /\ c \in DOMAIN alerts /\ alerts[c] \in Alert
      /\ \A i \in batch : alerts[i].acked # "drain"
  BY DrainStarts
<1>2. /\ DOMAIN alerts' = DOMAIN alerts /\ alerts'[c] = a
      /\ \A i \in DOMAIN alerts : i # c => alerts'[i] = alerts[i]
  BY <1>1, AlertUpdated
<1>3. /\ drainStep' \in {"fetch", "send"}
      /\ drainStep' = "fetch" <=> batch' = {}
  BY DEF Done
<1>4. /\ alerts[c].sent \in Nat /\ alerts[c].unacknowledged \in Nat
      /\ alerts[c].sent > 0 /\ alerts[c].sent <= alerts[c].unacknowledged + 1
  BY <1>1 DEF AlertInv, SentIsAccounted, SentForAReason, InHand, Alert
<1>5. SentIsAccounted'
  <2> SUFFICES ASSUME NEW i \in DOMAIN alerts
               PROVE  /\ ~ InHand(i)'
                      /\ alerts'[i].acked # "drain" =>
                           alerts'[i].sent <= alerts'[i].unacknowledged
    BY <1>2 DEF SentIsAccounted
  <2>1. ~ InHand(i)'
    BY <1>3 DEF InHand
  <2>2. CASE i = c
    BY <1>2, <1>4, <2>1, <2>2
  <2>3. CASE i # c
    <3>1. ~ InHand(i) /\ alerts'[i] = alerts[i]
      BY <1>2, <2>3 DEF InHand
    <3> QED
      BY <2>1, <3>1 DEF AlertInv, SentIsAccounted
  <2> QED
    BY <2>2, <2>3
<1>6. SentForAReason'
  <2> SUFFICES ASSUME NEW i \in DOMAIN alerts
               PROVE  /\ alerts'[i].acked = "drain" => alerts'[i].sent > 0
                      /\ alerts'[i].sent <= alerts'[i].unacknowledged + 1
    BY <1>2 DEF SentForAReason
  <2>1. CASE i = c
    BY <1>2, <1>4, <2>1
  <2>2. CASE i # c
    BY <1>2, <2>2 DEF AlertInv, SentForAReason
  <2> QED
    BY <2>1, <2>2
<1>7. \A i \in batch' : alerts'[i].acked # "drain"
  BY <1>1, <1>2
<1>8. batch' \subseteq DOMAIN alerts
  BY <1>1
<1> QED
  BY <1>1, <1>3, <1>5, <1>6, <1>7, <1>8, DrainKeeps

(* The acknowledgement of what was sent, or its failure.                    *)
LEMMA AckKeeps == ASSUME AlertInv, AckAlert \/ AckFails PROVE AlertInv'
<1> DEFINE c == Current
<1>1. /\ drainStep = "ack" /\ UNCHANGED <<job, status>>
      /\ Done(batch \ {c})
      /\ faults' = faults \/ (faults < MaxFaults /\ faults' = faults + 1)
  BY DEF AckAlert, AckFails
<1>2. /\ faults \in 0 .. MaxFaults /\ alerts[c] \in Alert
  BY <1>1, DrainStarts
<1>3. faults' \in 0 .. MaxFaults
  BY <1>1, <1>2
<1>4. batch' = batch \ {c} /\ Done(batch')
  BY <1>1 DEF Done
<1>5. CASE AckAlert
  <2> DEFINE a == [alerts[c] EXCEPT !.acked = "drain"]
  <2>1. /\ a \in Alert /\ a.by = alerts[c].by /\ a.sent = alerts[c].sent
        /\ a.acked = "drain" /\ a.unacknowledged = alerts[c].unacknowledged
    BY <1>2 DEF Alert
  <2>2. alerts' = [alerts EXCEPT ![c] = a]
    BY <1>5 DEF AckAlert
  <2>3. PICK b \in Alert : b = a
    BY <2>1
  <2> HIDE DEF a
  <2> QED
    BY <1>1, <1>3, <1>4, <2>1, <2>2, <2>3, AfterSending
<1>6. CASE AckFails
  <2> DEFINE a == [alerts[c] EXCEPT !.unacknowledged = @ + 1]
  <2>1. /\ a \in Alert /\ a.by = alerts[c].by /\ a.sent = alerts[c].sent
        /\ a.acked = alerts[c].acked
        /\ a.unacknowledged = alerts[c].unacknowledged + 1
    BY <1>2 DEF Alert
  <2>2. alerts' = [alerts EXCEPT ![c] = a]
    BY <1>6 DEF AckFails
  <2>3. PICK b \in Alert : b = a
    BY <2>1
  <2> HIDE DEF a
  <2> QED
    BY <1>1, <1>3, <1>4, <2>1, <2>2, <2>3, AfterSending
<1> QED
  BY <1>5, <1>6

(* A bot that stops between sending and acknowledging leaves the alert for  *)
(* the next one.                                                            *)
LEMMA RestartKeeps == ASSUME AlertInv, RestartDrain PROVE AlertInv'
<1> DEFINE c == Current
<1>1. /\ drainStep # "fetch" /\ faults < MaxFaults /\ faults' = faults + 1
      /\ UNCHANGED <<job, status>> /\ Done({})
      /\ alerts' = IF drainStep = "ack"
                   THEN [alerts EXCEPT ![c].unacknowledged = @ + 1]
                   ELSE alerts
  BY DEF RestartDrain
<1>2. faults \in 0 .. MaxFaults /\ alerts[c] \in Alert
  BY <1>1, DrainStarts
<1>3. faults' \in 0 .. MaxFaults
  BY <1>1, <1>2
<1>4. batch' = {} /\ drainStep' = "fetch" /\ Done(batch')
  BY <1>1 DEF Done
<1>5. CASE drainStep = "ack"
  <2> DEFINE a == [alerts[c] EXCEPT !.unacknowledged = @ + 1]
  <2>1. /\ a \in Alert /\ a.by = alerts[c].by /\ a.sent = alerts[c].sent
        /\ a.acked = alerts[c].acked
        /\ a.unacknowledged = alerts[c].unacknowledged + 1
    BY <1>2 DEF Alert
  <2>2. alerts' = [alerts EXCEPT ![c] = a]
    BY <1>1, <1>5
  <2>3. PICK b \in Alert : b = a
    BY <2>1
  <2>4. batch' \subseteq batch \ {c}
    BY <1>4
  <2> HIDE DEF a
  <2> QED
    BY <1>1, <1>3, <1>4, <1>5, <2>1, <2>2, <2>3, <2>4, AfterSending
<1>6. CASE drainStep # "ack"
  <2>1. alerts' = alerts
    BY <1>1, <1>6
  <2>2. SentIsAccounted' /\ SentForAReason'
    BY <1>4, <1>6, <2>1 DEF AlertInv, SentIsAccounted, SentForAReason, InHand
  <2> QED
    BY <1>1, <1>3, <1>4, <2>1, <2>2, DrainKeeps
<1> QED
  BY <1>5, <1>6

(* The admin acknowledges an alert, which may be in the batch or in hand.   *)
LEMMA AckByAdminKeeps ==
  ASSUME AlertInv, NEW i \in DOMAIN alerts, AckByAdmin(i)
  PROVE  AlertInv'
<1>1. /\ alerts[i].acked = "no" /\ UNCHANGED <<job, status>>
      /\ drainStep' = drainStep /\ batch' = batch /\ faults' = faults
  BY DEF AckByAdmin, drainVars
<1>2. /\ AlertTypeOK /\ faults \in 0 .. MaxFaults /\ batch \subseteq DOMAIN alerts
      /\ drainStep = "fetch" <=> batch = {}
      /\ \A k \in batch : alerts[k].acked # "drain"
  BY DrainStarts
<1>3. alerts[i] \in Alert
  BY <1>2, IdsOfAlerts
<1>4. PICK a \in Alert :
        /\ a.by = alerts[i].by /\ a.sent = alerts[i].sent /\ a.acked = "admin"
        /\ a.unacknowledged = alerts[i].unacknowledged
        /\ alerts' = [alerts EXCEPT ![i] = a]
  <2> DEFINE a == [alerts[i] EXCEPT !.acked = "admin"]
  <2>1. /\ a \in Alert /\ a.by = alerts[i].by /\ a.sent = alerts[i].sent
        /\ a.acked = "admin" /\ a.unacknowledged = alerts[i].unacknowledged
    BY <1>3 DEF Alert
  <2>2. alerts' = [alerts EXCEPT ![i] = a]
    BY DEF AckByAdmin
  <2> QED
    BY <2>1, <2>2
<1>5. /\ DOMAIN alerts' = DOMAIN alerts /\ alerts'[i] = a
      /\ \A k \in DOMAIN alerts : k # i => alerts'[k] = alerts[k]
  BY <1>2, <1>4, AlertUpdated
<1>6. SentIsAccounted'
  <2> SUFFICES ASSUME NEW k \in DOMAIN alerts
               PROVE  /\ InHand(k)' => alerts'[k].sent > 0
                      /\ alerts'[k].acked # "drain" /\ ~ InHand(k)' =>
                           alerts'[k].sent <= alerts'[k].unacknowledged
    BY <1>5 DEF SentIsAccounted
  <2>1. InHand(k)' <=> InHand(k)
    BY <1>1 DEF InHand, Current
  <2>2. /\ InHand(k) => alerts[k].sent > 0
        /\ alerts[k].acked # "drain" /\ ~ InHand(k) =>
             alerts[k].sent <= alerts[k].unacknowledged
    BY DEF AlertInv, SentIsAccounted
  <2> QED
    BY <1>1, <1>4, <1>5, <2>1, <2>2
<1>7. SentForAReason'
  BY <1>1, <1>4, <1>5 DEF AlertInv, SentForAReason
<1>8. \A k \in batch' : alerts'[k].acked # "drain"
  BY <1>1, <1>2, <1>4, <1>5
<1>9. drainStep' \in {"fetch", "send", "ack"}
  BY <1>1, <1>2 DEF AlertTypeOK
<1> QED
  BY <1>1, <1>2, <1>4, <1>6, <1>7, <1>8, <1>9, DrainKeeps

(* Every step of the queue keeps AlertInv.                                  *)
LEMMA AlertStep == AlertInv /\ [AlertNext]_alertVars => AlertInv'
<1> SUFFICES ASSUME AlertInv, [AlertNext]_alertVars PROVE AlertInv'
  OBVIOUS
<1>1. ASSUME NEW j \in Jobs, JobStep(j) PROVE AlertInv'
  <2>1. CASE \E text \in {"empty", "listed", "for OpenAI", "unjudged"} : CheckInput(j, text)
    BY <2>1, CheckInputKeeps
  <2>2. CASE \E o \in ChatOwners :
               \/ \E s \in HandoffStatuses \cup {"unknown"} : SetHandoffStatus(j, o, s)
               \/ HandoffFails(j, o)
    BY <2>2, HandoffKeeps
  <2>3. CASE Flagged(j) \/ NotFlagged(j)
    BY <2>3, VerdictKeeps
  <2>4. CASE \E deliverable \in BOOLEAN : FireAlert(j, deliverable)
    BY <2>4, FireAlertKeeps
  <2>5. CASE FireFails(j) \/ NotifyUser(j)
    BY <2>5, RequestEndsKeeps
  <2> QED
    BY <1>1, <2>1, <2>2, <2>3, <2>4, <2>5 DEF JobStep
<1>2. CASE DrainStep
  BY <1>2, FetchKeeps, SendAlertKeeps, SendFailsKeeps, AckKeeps DEF DrainStep
<1>3. CASE RestartDrain
  BY <1>3, RestartKeeps
<1>4. ASSUME NEW i \in DOMAIN alerts, AckByAdmin(i) PROVE AlertInv'
  BY <1>4, AckByAdminKeeps
<1>5. CASE UNCHANGED alertVars
  <2>1. /\ alerts' = alerts /\ job' = job /\ status' = status
        /\ drainStep' = drainStep /\ batch' = batch /\ faults' = faults
    BY <1>5 DEF alertVars
  <2>2. AlertTypeOK'
    BY <2>1 DEF AlertInv, AlertTypeOK
  <2>3. Announced'
    BY <2>1, AnnouncedKept DEF AlertInv
  <2>4. NewIsNothing'
    BY <2>1 DEF AlertInv, NewIsNothing
  <2> QED
    BY <2>1, <2>2, <2>3, <2>4, DrainUndisturbed DEF AlertInv, drainVars
<1> QED
  BY <1>1, <1>2, <1>3, <1>4, <1>5 DEF AlertNext

(* The inductive invariant of the alerts.                                   *)
THEOREM AlertInvariance == AlertSpec => []AlertInv
BY AlertsStart, AlertStep, PTL DEF AlertSpec

(* Every blocked input and every chat that waits for the operator has an    *)
(* alert, or storing it failed, whatever the drain does meanwhile.          *)
THEOREM OperatorHears == AlertSpec => []Announced
<1>1. AlertInv => Announced
  BY DEF AlertInv
<1> QED
  BY <1>1, AlertInvariance, PTL

(* The drain acknowledges nothing it has not sent, and sends again only     *)
(* after a failure, with restarts and the admin's acknowledgements between. *)
THEOREM DrainSendsForAReason == AlertSpec => []SentForAReason
<1>1. AlertInv => SentForAReason
  BY DEF AlertInv
<1> QED
  BY <1>1, AlertInvariance, PTL

-------------------------------------------------------------------------------
(* The export.                                                              *)

(* A page has rows after the cursor, each once, in the order of their       *)
(* times, and none that is left out is earlier.                             *)
LEMMA PageOfRows ==
  ASSUME ExportTypeOK, NEW page \in Pages(Rows(after))
  PROVE  /\ page \in Seq(Messages) /\ Len(page) \in Nat
         /\ DOMAIN page = 1 .. Len(page)
         /\ \A i \in DOMAIN page : page[i] \in Rows(after)
         /\ \A i, j \in DOMAIN page :
              i < j => page[i] # page[j] /\ message[page[i]].time <= message[page[j]].time
         /\ \A m \in Rows(after) :
              \/ \E i \in DOMAIN page : page[i] = m
              \/ \A i \in DOMAIN page : message[page[i]].time <= message[m].time
<1>1. Rows(after) \subseteq Messages
  BY DEF Rows
<1>2. PICK s \in SUBSET Rows(after) : page \in SetToSeqs(s)
  BY DEF Pages, SetToAllKPermutations
<1>3. IsFiniteSet(s)
  BY <1>1, <1>2, FS_Subset DEF ExportConstants
<1>4. Cardinality(s) \in Nat
  BY <1>3, FS_CardinalityType
<1>5. /\ page \in [1 .. Cardinality(s) -> s]
      /\ \A i, j \in 1 .. Cardinality(s) : i # j => page[i] # page[j]
  BY <1>2 DEF SetToSeqs
<1>6. /\ page \in Seq(s) /\ Len(page) = Cardinality(s)
      /\ DOMAIN page = 1 .. Len(page)
  BY <1>4, <1>5
<1>7. page \in Seq(Messages)
  BY <1>1, <1>2, <1>6, SeqMonotonic
<1>8. \A i \in DOMAIN page : page[i] \in Rows(after)
  BY <1>2, <1>5, <1>6
<1>9. \A i, j \in DOMAIN page :
        i < j => page[i] # page[j] /\ message[page[i]].time <= message[page[j]].time
  <2> SUFFICES ASSUME NEW i \in DOMAIN page, NEW j \in DOMAIN page, i < j
               PROVE  page[i] # page[j] /\ message[page[i]].time <= message[page[j]].time
    OBVIOUS
  <2>1. i # j
    BY <1>4, <1>6
  <2> QED
    BY <1>5, <1>6, <2>1 DEF Pages
<1>10. \A m \in Rows(after) :
         \/ \E i \in DOMAIN page : page[i] = m
         \/ \A i \in DOMAIN page : message[page[i]].time <= message[m].time
  BY DEF Pages
<1> QED
  BY <1>4, <1>6, <1>7, <1>8, <1>9, <1>10

(* ExportInv holds before the first page.                                   *)
LEMMA ExportStarts == ExportInit => ExportInv
<1> SUFFICES ASSUME ExportInit PROVE ExportInv
  OBVIOUS
<1>1. exported = <<>> /\ DOMAIN exported = {} /\ exported \in Seq(Messages)
  <2>1. exported = <<>>
    BY DEF ExportInit
  <2>2. <<>> \in Seq(Messages) /\ DOMAIN <<>> = {}
    BY EmptySeq
  <2> QED
    BY <2>1, <2>2
<1>2. ExportTypeOK
  BY <1>1 DEF ExportInit, ExportTypeOK
<1>3. \A m \in Messages : message[m].state = "none"
  BY DEF ExportInit
<1> QED
  BY <1>1, <1>2, <1>3 DEF ExportInv, ExportedBehindCursor,
                          ExportComplete

(* What the client has stays as it is while messages come and go.           *)
LEMMA MessageKeeps ==
  ASSUME ExportInv, NEW m \in Messages, ConstructMessage(m) \/ CommitMessage(m)
  PROVE  ExportInv'
<1>1. ExportTypeOK /\ ExportedBehindCursor /\ ExportComplete
  BY DEF ExportInv
<1>2. /\ clock' = clock /\ after' = after /\ exported' = exported
      /\ exportEnded' = exportEnded
  BY DEF ConstructMessage, CommitMessage
<1>3. \A i \in DOMAIN exported : exported[i] \in Messages
  BY <1>1, ElementOfSeq, LenProperties DEF ExportTypeOK
<1>4. CASE ConstructMessage(m)
  <2>1. /\ message' \in [Messages -> [state : {"none", "written", "listed", "deleted"},
                                      time : 0 .. MaxClock]]
        /\ message'[m].state = "written" /\ message[m].state = "none"
        /\ \A n \in Messages : n # m => message'[n] = message[n]
        /\ late' = late
    BY <1>1, <1>4 DEF ConstructMessage, ExportTypeOK
  <2>2. \A i \in DOMAIN exported : message'[exported[i]] = message[exported[i]]
    BY <1>1, <1>3, <2>1 DEF ExportedBehindCursor
  <2>3. ExportTypeOK'
    BY <1>1, <1>2, <2>1 DEF ExportTypeOK
  <2>4. ExportedBehindCursor'
    BY <1>1, <1>2, <2>2 DEF ExportedBehindCursor
  <2>5. ExportComplete'
    BY <1>1, <1>2, <2>1, <2>2 DEF ExportComplete
  <2> QED
    BY <2>3, <2>4, <2>5 DEF ExportInv
<1>5. CASE CommitMessage(m)
  <2>1. /\ message' \in [Messages -> [state : {"none", "written", "listed", "deleted"},
                                      time : 0 .. MaxClock]]
        /\ message'[m].state = "listed" /\ message[m].state = "written"
        /\ \A n \in Messages : n # m => message'[n] = message[n]
        /\ \A n \in Messages : message'[n].time = message[n].time
        /\ late' = IF message[m].time <= after THEN late \cup {m} ELSE late
    BY <1>1, <1>5 DEF CommitMessage, ExportTypeOK
  <2>2. \A i \in DOMAIN exported : message'[exported[i]] = message[exported[i]]
    BY <1>1, <1>3, <2>1 DEF ExportedBehindCursor
  <2>3. ExportTypeOK'
    BY <1>1, <1>2, <2>1 DEF ExportTypeOK
  <2>4. ExportedBehindCursor'
    BY <1>1, <1>2, <2>2 DEF ExportedBehindCursor
  <2>5. \A n \in Messages :
          message'[n].state = "listed" /\ message'[n].time <= after /\ n \notin late' =>
            message[n].state = "listed" /\ message[n].time <= after /\ n \notin late
    BY <2>1
  <2>6. ExportComplete'
    BY <1>1, <1>2, <2>1, <2>2, <2>5 DEF ExportComplete
  <2> QED
    BY <2>3, <2>4, <2>6 DEF ExportInv
<1> QED
  BY <1>4, <1>5

(* Clearing messages takes nothing from the client.                         *)
LEMMA SoftDeleteKeeps ==
  ASSUME ExportInv, NEW ms \in SUBSET Messages, SoftDelete(ms)
  PROVE  ExportInv'
<1>1. ExportTypeOK /\ ExportedBehindCursor /\ ExportComplete
  BY DEF ExportInv
<1>2. /\ clock' = clock /\ after' = after /\ exported' = exported
      /\ exportEnded' = exportEnded /\ late' = late
  BY DEF SoftDelete
<1>3. \A i \in DOMAIN exported : exported[i] \in Messages
  BY <1>1, ElementOfSeq, LenProperties DEF ExportTypeOK
<1>4. /\ message' \in [Messages -> [state : {"none", "written", "listed", "deleted"},
                                    time : 0 .. MaxClock]]
      /\ \A n \in Messages : /\ message'[n].time = message[n].time
                             /\ message'[n].state = message[n].state
                                \/ message'[n].state = "deleted"
  BY <1>1 DEF SoftDelete, ExportTypeOK
<1>5. ExportTypeOK'
  BY <1>1, <1>2, <1>4 DEF ExportTypeOK
<1>6. ExportedBehindCursor'
  BY <1>1, <1>2, <1>3, <1>4 DEF ExportedBehindCursor
<1>7. ExportComplete'
  BY <1>1, <1>2, <1>3, <1>4 DEF ExportComplete
<1> QED
  BY <1>5, <1>6, <1>7 DEF ExportInv

(* A page continues the export where it stands.                             *)
LEMMA ExportMessagesKeeps == ASSUME ExportInv, ExportMessages PROVE ExportInv'
<1>1. ExportTypeOK /\ ExportedBehindCursor /\ ExportComplete
  BY DEF ExportInv
<1>2. PICK page \in Pages(Rows(after)) :
        /\ exported' = exported \o page
        /\ after' = IF page = <<>> THEN after ELSE message[Last(page)].time
        /\ exportEnded' = IF page = <<>> THEN "yes" ELSE "no"
  BY DEF ExportMessages
<1>3. clock' = clock /\ message' = message /\ late' = late
  BY DEF ExportMessages
<1> DEFINE time(m) == message[m].time
           N == Len(exported)
           K == Len(page)
<1>4. /\ page \in Seq(Messages) /\ K \in Nat /\ DOMAIN page = 1 .. K
      /\ \A i \in 1 .. K : page[i] \in Rows(after)
      /\ \A i, j \in 1 .. K : i < j => page[i] # page[j] /\ time(page[i]) <= time(page[j])
      /\ \A m \in Rows(after) :
           \/ \E i \in 1 .. K : page[i] = m
           \/ \A i \in 1 .. K : time(page[i]) <= time(m)
  BY <1>1, PageOfRows
<1>5. /\ exported \in Seq(Messages) /\ N \in Nat /\ DOMAIN exported = 1 .. N
      /\ \A i \in 1 .. N : exported[i] \in Messages
  BY <1>1, ElementOfSeq, LenProperties DEF ExportTypeOK
<1>6. /\ exported' \in Seq(Messages) /\ DOMAIN exported' = 1 .. N + K
      /\ \A i \in 1 .. N : exported'[i] = exported[i]
      /\ \A i \in 1 .. K : exported'[N + i] = page[i]
  <2>1. /\ exported \o page \in Seq(Messages) /\ Len(exported \o page) = N + K
        /\ \A i \in 1 .. N + K : (exported \o page)[i] =
             IF i <= N THEN exported[i] ELSE page[i - N]
    BY <1>4, <1>5, ConcatProperties
  <2>2. DOMAIN exported' = 1 .. Len(exported')
    BY <1>2, <2>1, LenProperties
  <2> QED
    BY <1>2, <1>4, <1>5, <2>1, <2>2
<1>7. /\ \A m \in Messages : time(m) \in Nat
      /\ after \in Nat
      /\ \A i \in 1 .. N : time(exported[i]) <= after
      /\ \A i \in 1 .. K : page[i] \in Messages /\ after < time(page[i])
                           /\ message[page[i]].state = "listed"
  <2>1. \A m \in Messages : time(m) \in Nat
    BY <1>1 DEF ExportTypeOK
  <2>2. after \in Nat
    BY <1>1 DEF ExportTypeOK
  <2>3. \A i \in 1 .. N : time(exported[i]) <= after
    BY <1>1, <1>5 DEF ExportedBehindCursor
  <2>4. \A i \in 1 .. K : page[i] \in Messages /\ after < time(page[i])
                         /\ message[page[i]].state = "listed"
    BY <1>4 DEF Rows
  <2> QED
    BY <2>1, <2>2, <2>3, <2>4
<1>8. /\ page = <<>> => K = 0
      /\ page # <<>> => K > 0
  BY <1>4, EmptySeq
<1>9. /\ after' \in 0 .. MaxClock /\ after <= after'
      /\ K = 0 => after' = after
      /\ K > 0 => after' = time(page[K])
      /\ \A i \in 1 .. K : time(page[i]) <= after'
  <2>1. CASE K = 0
    BY <1>1, <1>2, <1>8, <2>1 DEF ExportTypeOK
  <2>2. CASE K > 0
    <3>1. after' = time(page[K]) /\ K \in 1 .. K
      BY <1>2, <1>4, <1>8, <2>2 DEF Last
    <3>2. time(page[K]) \in 0 .. MaxClock
      BY <1>1, <1>7, <3>1 DEF ExportTypeOK
    <3>3. \A i \in 1 .. K : time(page[i]) <= time(page[K])
      <4> SUFFICES ASSUME NEW i \in 1 .. K PROVE time(page[i]) <= time(page[K])
        OBVIOUS
      <4>1. CASE i = K
        BY <1>7, <3>1, <4>1
      <4>2. CASE i < K
        BY <1>4, <3>1, <4>2
      <4>3. i = K \/ i < K
        BY <3>1
      <4> QED
        BY <4>1, <4>2, <4>3
    <3> QED
      BY <1>7, <2>2, <3>1, <3>2, <3>3
  <2> QED
    BY <1>4, <2>1, <2>2
<1>10. ExportTypeOK'
  BY <1>1, <1>2, <1>3, <1>6, <1>9 DEF ExportTypeOK
<1>11. \A i \in 1 .. N + K : \/ i \in 1 .. N
                             \/ \E k \in 1 .. K : i = N + k
  <2> SUFFICES ASSUME NEW i \in 1 .. N + K, i \notin 1 .. N
               PROVE  \E k \in 1 .. K : i = N + k
    OBVIOUS
  <2>1. i - N \in 1 .. K /\ i = N + (i - N)
    BY <1>4, <1>5
  <2> QED
    BY <2>1
<1>12. ExportedBehindCursor'
  <2> SUFFICES ASSUME NEW i \in 1 .. N + K
               PROVE  /\ message[exported'[i]].state \in {"listed", "deleted"}
                      /\ time(exported'[i]) <= after'
    BY <1>3, <1>6 DEF ExportedBehindCursor
  <2>1. CASE i \in 1 .. N
    <3>1. /\ message[exported[i]].state \in {"listed", "deleted"}
          /\ time(exported[i]) <= after
      BY <1>1, <1>5, <2>1 DEF ExportedBehindCursor
    <3>2. after' \in Nat
      BY <1>9
    <3> QED
      BY <1>5, <1>6, <1>7, <1>9, <2>1, <3>1, <3>2
  <2>2. CASE \E k \in 1 .. K : i = N + k
    BY <1>6, <1>7, <1>9, <2>2
  <2> QED
    BY <1>11, <2>1, <2>2
<1>13. \A i, j \in 1 .. N + K :
         i < j => exported'[i] # exported'[j] /\ time(exported'[i]) <= time(exported'[j])
  <2> SUFFICES ASSUME NEW i \in 1 .. N + K, NEW j \in 1 .. N + K, i < j
               PROVE  /\ exported'[i] # exported'[j]
                      /\ time(exported'[i]) <= time(exported'[j])
    OBVIOUS
  <2>1. CASE i \in 1 .. N /\ j \in 1 .. N
    <3>1. exported[i] # exported[j] /\ time(exported[i]) <= time(exported[j])
      BY <1>1, <1>5, <2>1 DEF ExportComplete
    <3>2. exported'[i] = exported[i] /\ exported'[j] = exported[j]
      BY <1>6, <2>1
    <3> HIDE DEF N, K, time
    <3> QED
      BY <3>1, <3>2
  <2>2. ASSUME i \in 1 .. N, NEW k \in 1 .. K, j = N + k
        PROVE  /\ exported'[i] # exported'[j]
               /\ time(exported'[i]) <= time(exported'[j])
    <3>1. exported'[i] = exported[i] /\ exported'[j] = page[k]
      BY <1>6, <2>2
    <3>2. /\ time(exported[i]) \in Nat /\ time(page[k]) \in Nat
          /\ time(exported[i]) <= after /\ after < time(page[k]) /\ after \in Nat
      BY <1>5, <1>7, <2>2
    <3>3. exported[i] # page[k] /\ time(exported[i]) <= time(page[k])
      <4> HIDE DEF N, K
      <4> QED
        BY <3>2
    <3> QED
      BY <3>1, <3>3
  <2>3. ASSUME NEW l \in 1 .. K, NEW k \in 1 .. K, i = N + l, j = N + k
        PROVE  /\ exported'[i] # exported'[j]
               /\ time(exported'[i]) <= time(exported'[j])
    <3>1. l < k
      BY <1>4, <1>5, <2>3
    <3> QED
      BY <1>4, <1>6, <2>3, <3>1
  <2>4. ASSUME NEW l \in 1 .. K, i = N + l, j \in 1 .. N PROVE FALSE
    BY <1>4, <1>5, <2>4
  <2> QED
    BY <1>11, <2>1, <2>2, <2>3, <2>4
<1>14. ASSUME NEW m \in Messages, message[m].state = "listed",
              time(m) <= after', m \notin late
       PROVE  \E i \in 1 .. N + K : exported'[i] = m \/ time(exported'[i]) = time(m)
  <2>1. CASE time(m) <= after
    <3>1. PICK i \in 1 .. N : exported[i] = m \/ time(exported[i]) = time(m)
      BY <1>1, <1>5, <1>14, <2>1 DEF ExportComplete
    <3>2. i \in 1 .. N + K
      BY <1>4, <1>5
    <3> QED
      BY <1>6, <3>1, <3>2
  <2>2. CASE after < time(m)
    <3>1. m \in Rows(after)
      BY <1>14, <2>2 DEF Rows
    <3>2. K > 0
      BY <1>4, <1>7, <1>9, <1>14, <2>2
    <3>3. \A k \in 1 .. K : N + k \in 1 .. N + K
      BY <1>4, <1>5
    <3>4. CASE \E k \in 1 .. K : page[k] = m
      BY <1>6, <3>3, <3>4
    <3>5. CASE \A k \in 1 .. K : time(page[k]) <= time(m)
      <4>1. K \in 1 .. K
        BY <1>4, <3>2
      <4>2. time(page[K]) = time(m)
        BY <1>7, <1>9, <1>14, <3>2, <3>5, <4>1
      <4> QED
        BY <1>6, <3>3, <4>1, <4>2
    <3> QED
      BY <1>4, <3>1, <3>4, <3>5
  <2> QED
    BY <1>7, <2>1, <2>2
<1>15. ExportComplete'
  BY <1>3, <1>6, <1>13, <1>14 DEF ExportComplete
<1> QED
  BY <1>10, <1>12, <1>15 DEF ExportInv

(* Every step of the export keeps ExportInv.                                *)
LEMMA ExportStep == ExportInv /\ [ExportNext]_exportVars => ExportInv'
<1> SUFFICES ASSUME ExportInv, [ExportNext]_exportVars PROVE ExportInv'
  OBVIOUS
<1>1. ASSUME UNCHANGED <<message, after, exported, exportEnded, late>>,
             clock' \in 1 .. MaxClock
      PROVE  ExportInv'
  BY <1>1 DEF ExportInv, ExportTypeOK, ExportedBehindCursor, ExportComplete
<1>2. CASE ExportTick
  <2>1. clock' \in 1 .. MaxClock
    BY <1>2 DEF ExportTick, ExportInv, ExportTypeOK
  <2> QED
    BY <1>1, <1>2, <2>1 DEF ExportTick
<1>3. CASE UNCHANGED exportVars
  BY <1>1, <1>3 DEF exportVars, ExportInv, ExportTypeOK
<1> QED
  BY <1>2, <1>3, MessageKeeps, SoftDeleteKeeps, ExportMessagesKeeps DEF ExportNext

(* The export is complete and in order, for any set of messages written,    *)
(* committed and cleared meanwhile and for pages of any size.               *)
THEOREM ExportIsComplete == ExportSpec => []ExportComplete
<1>1. ExportInv => ExportComplete
  BY DEF ExportInv
<1> QED
  BY <1>1, ExportStarts, ExportStep, PTL DEF ExportSpec

-------------------------------------------------------------------------------
(* The broadcast.                                                           *)

(* The owners of an interface are asked for once each.                      *)
LEMMA OwnersOnce ==
  ASSUME BroadcastTypeOK, NEW ids \in OwnerIdsByInterface
  PROVE  /\ ids \in Seq(Recipient)
         /\ \A i, j \in DOMAIN ids : ids[i].owner = ids[j].owner => i = j
<1> DEFINE T == {chatOwners[i] : i \in DOMAIN chatOwners}
           S == T \cap Numeric
<1>1. Len(chatOwners) \in Nat /\ DOMAIN chatOwners = 1 .. Len(chatOwners)
  BY LenProperties DEF BroadcastTypeOK
<1>2. IsFiniteSet(T)
  <2>1. chatOwners \in [1 .. Len(chatOwners) -> T]
    BY <1>1, LenProperties DEF BroadcastTypeOK
  <2>2. chatOwners \in Surjection(1 .. Len(chatOwners), T)
    BY <1>1, <2>1 DEF Surjection
  <2>3. ExistsSurjection(1 .. Len(chatOwners), T)
    BY <2>2 DEF ExistsSurjection
  <2> QED
    BY <1>1, <2>3, FS_NatSurjection
<1>3. Cardinality(S) \in Nat
  <2>1. S \in SUBSET T
    OBVIOUS
  <2> QED
    BY <1>2, <2>1, FS_Subset, FS_CardinalityType
<1>4. PICK rows \in SetToAllKPermutations(S) \cap [1 .. Cardinality(S) -> Numeric] :
        ids = [k \in DOMAIN rows |-> Found(rows[k])]
  BY DEF OwnerIdsByInterface
<1>5. PICK s \in SUBSET S : rows \in SetToSeqs(s)
  BY <1>4 DEF SetToAllKPermutations
<1>6. /\ DOMAIN rows = 1 .. Cardinality(s)
      /\ \A i, j \in 1 .. Cardinality(s) : i # j => rows[i] # rows[j]
  BY <1>5 DEF SetToSeqs
<1>7. \A o \in Numeric : Found(o) \in Recipient /\ Found(o).owner = o
  BY BroadcastConstants DEF Found, Recipient, Numeric
<1>8. /\ DOMAIN ids = 1 .. Cardinality(S)
      /\ \A i \in DOMAIN ids : ids[i] \in Recipient /\ ids[i].owner = rows[i]
  BY <1>4, <1>7
<1>9. ids \in [1 .. Cardinality(S) -> Recipient]
  BY <1>4, <1>8
<1>10. ids \in Seq(Recipient)
  <2>1. PICK n \in Nat : ids \in [1 .. n -> Recipient]
    BY <1>3, <1>9
  <2> QED
    BY <2>1
<1>11. DOMAIN ids = DOMAIN rows
  BY <1>4
<1> QED
  BY <1>6, <1>8, <1>10, <1>11

(* BroadcastInv holds before the route is called.                           *)
LEMMA BroadcastStarts == BroadcastInit => BroadcastInv
<1> SUFFICES ASSUME BroadcastInit PROVE BroadcastInv
  OBVIOUS
<1>1. chatOwners \in Seq(OwnerIds)
  <2>1. PICK n \in 0 .. MaxChats : chatOwners \in [1 .. n -> OwnerIds]
    BY DEF BroadcastInit
  <2> QED
    BY <2>1
<1>2. /\ broadcast.step = "new" /\ broadcast.by = "none"
      /\ broadcast.todo = <<>> /\ broadcast.asked = <<>> /\ broadcast.delivered = <<>>
      /\ broadcast.sent = 0 /\ broadcast.failed = 0
  BY DEF BroadcastInit
<1>3. BroadcastTypeOK
  BY <1>1 DEF BroadcastInit, BroadcastTypeOK
<1>4. Len(<<>>) = 0
  OBVIOUS
<1>5. BroadcastAccounts
  BY <1>2, <1>4 DEF BroadcastAccounts
<1> QED
  BY <1>2, <1>3, <1>5 DEF BroadcastInv, NewBroadcast, NobodyTwice

(* The recipients are known.                                                *)
LEMMA RouteKeeps ==
  ASSUME BroadcastInv, NEW by \in {"list", "interface"}, NEW ids \in Seq(Recipient),
         by = "interface" => \A i, j \in DOMAIN ids : ids[i].owner = ids[j].owner => i = j,
         BroadcastRoute(by, ids)
  PROVE  BroadcastInv'
<1>1. /\ BroadcastTypeOK /\ chatOwners' = chatOwners
      /\ broadcast.asked = <<>> /\ broadcast.delivered = <<>>
      /\ broadcast.sent = 0 /\ broadcast.failed = 0
  BY DEF BroadcastInv, NewBroadcast, BroadcastRoute
<1>2. /\ broadcast'.step \in {"refused", "sending"} /\ broadcast'.by = by
      /\ broadcast'.todo = ids /\ broadcast'.asked = ids
      /\ broadcast'.delivered = <<>> /\ broadcast'.sent = 0 /\ broadcast'.failed = 0
  BY <1>1 DEF BroadcastRoute, BroadcastTypeOK
<1>3. BroadcastTypeOK'
  BY <1>1 DEF BroadcastRoute, BroadcastTypeOK
<1>4. Len(ids) \in Nat /\ Len(<<>>) = 0 /\ DOMAIN <<>> = {}
  OBVIOUS
<1>5. BroadcastAccounts'
  BY <1>2, <1>4 DEF BroadcastAccounts
<1>6. NobodyTwice'
  BY <1>2, <1>4 DEF NobodyTwice
<1>7. NewBroadcast'
  BY <1>2 DEF NewBroadcast
<1> QED
  BY <1>3, <1>5, <1>6, <1>7 DEF BroadcastInv

(* The next recipient is asked for, and delivered to or not.                *)
LEMMA NextRecipient ==
  ASSUME BroadcastInv, Notified \/ NotNotified
  PROVE  BroadcastInv'
<1> DEFINE todo == broadcast.todo
           delivered == broadcast.delivered
<1>1. /\ BroadcastTypeOK /\ chatOwners' = chatOwners
      /\ broadcast.step = "sending" /\ todo # <<>>
  BY DEF BroadcastInv, Notified, NotNotified, Sending
<1>2. /\ todo \in Seq(Recipient) /\ broadcast.asked \in Seq(Recipient)
      /\ broadcast.sent \in Nat /\ broadcast.failed \in Nat
      /\ delivered \in Seq(Recipient)
  BY <1>1 DEF BroadcastTypeOK
<1>3. PICK d \in {delivered, Append(delivered, Head(todo))} :
        \/ /\ d = Append(delivered, Head(todo))
           /\ broadcast' = [Asked(broadcast) EXCEPT !.sent = @ + 1, !.delivered = d]
        \/ broadcast' = [Asked(broadcast) EXCEPT !.failed = @ + 1, !.delivered = d]
  <2>1. CASE Notified
    <3>1. Asked(broadcast).delivered = delivered
      BY <1>1 DEF Asked, BroadcastTypeOK
    <3>2. broadcast' = [Asked(broadcast) EXCEPT
            !.sent = @ + 1, !.delivered = Append(delivered, Head(todo))]
      BY <2>1, <3>1 DEF Notified
    <3> QED
      BY <3>2
  <2>2. CASE NotNotified
    BY <2>2 DEF NotNotified
  <2> QED
    BY <2>1, <2>2
<1>4. /\ broadcast'.step = "sending" /\ broadcast'.by = broadcast.by
      /\ broadcast'.todo = Tail(todo) /\ broadcast'.asked = broadcast.asked
      /\ broadcast'.delivered = d
      /\ \/ /\ broadcast'.sent = broadcast.sent + 1 /\ broadcast'.failed = broadcast.failed
            /\ d = Append(delivered, Head(todo))
         \/ broadcast'.sent = broadcast.sent /\ broadcast'.failed = broadcast.failed + 1
  BY <1>1, <1>3 DEF Asked, BroadcastTypeOK
<1>5. /\ Head(todo) \in Recipient /\ Tail(todo) \in Seq(Recipient)
      /\ Len(todo) \in Nat /\ Len(Tail(todo)) = Len(todo) - 1 /\ Len(todo) > 0
      /\ Head(todo) = todo[1]
      /\ \A i \in 1 .. Len(todo) - 1 : Tail(todo)[i] = todo[i + 1]
      /\ DOMAIN todo = 1 .. Len(todo) /\ DOMAIN Tail(todo) = 1 .. Len(todo) - 1
  <2>1. /\ Head(todo) \in Recipient /\ Tail(todo) \in Seq(Recipient)
        /\ Len(Tail(todo)) = Len(todo) - 1
        /\ \A i \in 1 .. Len(Tail(todo)) : Tail(todo)[i] = todo[i + 1]
    BY <1>1, <1>2, HeadTailProperties
  <2>2. Len(todo) \in Nat /\ Len(todo) > 0 /\ DOMAIN todo = 1 .. Len(todo)
    BY <1>1, <1>2, EmptySeq, LenProperties
  <2>3. DOMAIN Tail(todo) = 1 .. Len(todo) - 1
    BY <2>1, LenProperties
  <2> QED
    BY <2>1, <2>2, <2>3
<1>6. /\ d \in Seq(Recipient) /\ Len(delivered) \in Nat
      /\ DOMAIN delivered = 1 .. Len(delivered)
      /\ Append(delivered, Head(todo)) \in Seq(Recipient)
      /\ DOMAIN Append(delivered, Head(todo)) = 1 .. Len(delivered) + 1
      /\ Len(Append(delivered, Head(todo))) = Len(delivered) + 1
      /\ \A i \in 1 .. Len(delivered) : Append(delivered, Head(todo))[i] = delivered[i]
      /\ Append(delivered, Head(todo))[Len(delivered) + 1] = Head(todo)
  <2>1. Len(delivered) \in Nat /\ DOMAIN delivered = 1 .. Len(delivered)
    BY <1>2, LenProperties
  <2>2. /\ Append(delivered, Head(todo)) \in Seq(Recipient)
        /\ Len(Append(delivered, Head(todo))) = Len(delivered) + 1
        /\ \A i \in 1 .. Len(delivered) : Append(delivered, Head(todo))[i] = delivered[i]
        /\ Append(delivered, Head(todo))[Len(delivered) + 1] = Head(todo)
    BY <1>2, <1>5, AppendProperties
  <2>3. DOMAIN Append(delivered, Head(todo)) = 1 .. Len(delivered) + 1
    BY <2>2, LenProperties
  <2> QED
    BY <1>2, <1>3, <2>1, <2>2, <2>3
<1>7. BroadcastTypeOK'
  <2>1. broadcast'.sent \in Nat /\ broadcast'.failed \in Nat
    BY <1>2, <1>4
  <2>2. broadcast' \in [step : {"new", "sending", "done", "refused"},
                        by : {"none", "list", "interface"},
                        todo : Seq(Recipient), asked : Seq(Recipient),
                        sent : Nat, failed : Nat, delivered : Seq(Recipient)]
    <3>1. Asked(broadcast) \in
            [step : {"new", "sending", "done", "refused"},
             by : {"none", "list", "interface"},
             todo : Seq(Recipient), asked : Seq(Recipient),
             sent : Nat, failed : Nat, delivered : Seq(Recipient)]
      BY <1>1, <1>5 DEF Asked, BroadcastTypeOK
    <3>2. PICK b : b = Asked(broadcast)
      OBVIOUS
    <3>3. \/ broadcast' = [b EXCEPT !.sent = b.sent + 1, !.delivered = d]
          \/ broadcast' = [b EXCEPT !.failed = b.failed + 1, !.delivered = d]
      BY <1>3, <3>2
    <3>4. b.sent \in Nat /\ b.failed \in Nat
      BY <3>1, <3>2
    <3>5. b.sent + 1 \in Nat /\ b.failed + 1 \in Nat /\ d \in Seq(Recipient)
      BY <1>6, <3>4
    <3> QED
      BY <3>1, <3>2, <3>3, <3>5
  <2> QED
    BY <1>1, <2>2 DEF BroadcastTypeOK
<1>8. NewBroadcast'
  BY <1>4 DEF NewBroadcast
<1>9. /\ broadcast.sent + broadcast.failed + Len(todo) = Len(broadcast.asked)
      /\ broadcast.sent <= Len(delivered)
  BY DEF BroadcastInv, BroadcastAccounts
<1>10. broadcast'.sent + broadcast'.failed + Len(broadcast'.todo) = Len(broadcast'.asked)
  <2>1. Len(broadcast'.todo) = Len(todo) - 1 /\ Len(broadcast'.asked) = Len(broadcast.asked)
    BY <1>4, <1>5
  <2>2. broadcast'.sent + broadcast'.failed = broadcast.sent + broadcast.failed + 1
    BY <1>2, <1>4
  <2>3. broadcast.sent + broadcast.failed \in Nat /\ Len(todo) \in Nat
    BY <1>2, <1>5
  <2>4. (broadcast.sent + broadcast.failed + 1) + (Len(todo) - 1)
          = broadcast.sent + broadcast.failed + Len(todo)
    BY <2>3
  <2> QED
    BY <1>9, <2>1, <2>2, <2>4
<1>11. broadcast'.sent <= Len(broadcast'.delivered)
  BY <1>2, <1>3, <1>4, <1>6, <1>9
<1>12. CASE broadcast.by # "interface"
  BY <1>4, <1>7, <1>8, <1>10, <1>11, <1>12
     DEF BroadcastInv, BroadcastAccounts, NobodyTwice
<1>13. CASE broadcast.by = "interface"
  <2>1. /\ \A i, j \in 1 .. Len(todo) : todo[i].owner = todo[j].owner => i = j
        /\ \A i \in 1 .. Len(delivered), j \in 1 .. Len(todo) : delivered[i].owner # todo[j].owner
        /\ \A i, j \in 1 .. Len(delivered) : delivered[i].owner = delivered[j].owner => i = j
    BY <1>5, <1>6, <1>13 DEF BroadcastInv, NobodyTwice, BroadcastAccounts
  <2>2. \A i, j \in 1 .. Len(todo) - 1 : Tail(todo)[i].owner = Tail(todo)[j].owner => i = j
    BY <1>5, <2>1
  <2>3. \A j \in 1 .. Len(todo) - 1 : Tail(todo)[j].owner # Head(todo).owner
    BY <1>5, <2>1
  <2>4. \A i \in 1 .. Len(delivered), j \in 1 .. Len(todo) - 1 :
          delivered[i].owner # Tail(todo)[j].owner
    BY <1>5, <2>1
  <2>5. \A i \in DOMAIN d, j \in 1 .. Len(todo) - 1 : d[i].owner # Tail(todo)[j].owner
    <3>1. CASE d = delivered
      BY <1>6, <2>4, <3>1
    <3>2. CASE d = Append(delivered, Head(todo))
      <4> SUFFICES ASSUME NEW i \in 1 .. Len(delivered) + 1, NEW j \in 1 .. Len(todo) - 1
                   PROVE  d[i].owner # Tail(todo)[j].owner
        BY <1>6, <3>2
      <4>1. CASE i <= Len(delivered)
        BY <1>6, <2>4, <3>2, <4>1
      <4>2. CASE i = Len(delivered) + 1
        BY <1>6, <2>3, <3>2, <4>2
      <4> QED
        BY <1>6, <4>1, <4>2
    <3> QED
      BY <1>3, <3>1, <3>2
  <2>6. \A i \in 1 .. Len(delivered) : delivered[i].owner # Head(todo).owner
    BY <1>5, <2>1
  <2>7. \A i, j \in DOMAIN d : d[i].owner = d[j].owner => i = j
    <3>1. CASE d = delivered
      BY <1>6, <2>1, <3>1
    <3>2. CASE d = Append(delivered, Head(todo))
      <4> SUFFICES ASSUME NEW i \in 1 .. Len(delivered) + 1,
                          NEW j \in 1 .. Len(delivered) + 1, d[i].owner = d[j].owner
                   PROVE  i = j
        BY <1>6, <3>2
      <4>1. CASE i <= Len(delivered) /\ j <= Len(delivered)
        BY <1>6, <2>1, <3>2, <4>1
      <4>2. CASE i <= Len(delivered) /\ j = Len(delivered) + 1
        BY <1>6, <2>6, <3>2, <4>2
      <4>3. CASE i = Len(delivered) + 1 /\ j <= Len(delivered)
        BY <1>6, <2>6, <3>2, <4>3
      <4> QED
        BY <1>6, <4>1, <4>2, <4>3
    <3> QED
      BY <1>3, <3>1, <3>2
  <2>8. NobodyTwice'
    <3>1. /\ \A i, j \in DOMAIN broadcast'.todo :
               broadcast'.todo[i].owner = broadcast'.todo[j].owner => i = j
          /\ \A i \in DOMAIN broadcast'.delivered, j \in DOMAIN broadcast'.todo :
               broadcast'.delivered[i].owner # broadcast'.todo[j].owner
      <4>1. /\ broadcast'.todo = Tail(todo) /\ DOMAIN Tail(todo) = 1 .. Len(todo) - 1
            /\ broadcast'.delivered = d
        BY <1>4, <1>5
      <4> HIDE DEF todo
      <4> QED
        BY <4>1, <2>2, <2>5
    <3> QED
      BY <3>1 DEF NobodyTwice
  <2>9. BroadcastAccounts'
    BY <1>4, <1>10, <1>11, <2>7 DEF BroadcastAccounts
  <2> QED
    BY <1>7, <1>8, <2>8, <2>9 DEF BroadcastInv
<1> QED
  BY <1>12, <1>13

(* Every step of a broadcast keeps BroadcastInv.                            *)
LEMMA BroadcastStep == BroadcastInv /\ [BroadcastNext]_broadcastVars => BroadcastInv'
<1> SUFFICES ASSUME BroadcastInv, [BroadcastNext]_broadcastVars PROVE BroadcastInv'
  OBVIOUS
<1>1. ASSUME NEW n \in 1 .. MaxTargets, NEW chats \in [1 .. n -> ChatIds],
             BroadcastRoute("list", [k \in 1 .. n |-> Named(chats[k])])
      PROVE  BroadcastInv'
  <2>1. [k \in 1 .. n |-> Named(chats[k])] \in Seq(Recipient)
    <3>1. \A k \in 1 .. n : Named(chats[k]) \in Recipient
      BY DEF Named, Recipient
    <3> QED
      BY <3>1
  <2> QED
    BY <1>1, <2>1, RouteKeeps
<1>2. ASSUME NEW ids \in OwnerIdsByInterface, BroadcastRoute("interface", ids)
      PROVE  BroadcastInv'
  BY <1>2, OwnersOnce, RouteKeeps DEF BroadcastInv
<1>3. CASE BroadcastResult
  <2>1. /\ chatOwners' = chatOwners /\ broadcast' = [broadcast EXCEPT !.step = "done"]
    BY <1>3 DEF BroadcastResult
  <2>2. BroadcastTypeOK'
    BY <2>1 DEF BroadcastInv, BroadcastTypeOK
  <2>3. /\ broadcast'.step = "done" /\ broadcast'.by = broadcast.by
        /\ broadcast'.todo = broadcast.todo /\ broadcast'.asked = broadcast.asked
        /\ broadcast'.sent = broadcast.sent /\ broadcast'.failed = broadcast.failed
        /\ broadcast'.delivered = broadcast.delivered
    BY <2>1 DEF BroadcastInv, BroadcastTypeOK
  <2> QED
    BY <2>2, <2>3 DEF BroadcastInv, NewBroadcast, NobodyTwice, BroadcastAccounts
<1>4. CASE UNCHANGED broadcastVars
  BY <1>4 DEF broadcastVars, BroadcastInv, BroadcastTypeOK, NewBroadcast,
              NobodyTwice, BroadcastAccounts
<1> QED
  BY <1>1, <1>2, <1>3, <1>4, NextRecipient DEF BroadcastNext

(* A broadcast accounts for every recipient, and one to an interface reaches *)
(* no owner id twice, for any number of chats and recipients, and whatever  *)
(* numbers the ids are.                                                     *)
THEOREM BroadcastIsAccounted == BroadcastSpec => []BroadcastAccounts
<1>1. BroadcastInv => BroadcastAccounts
  BY DEF BroadcastInv
<1> QED
  BY <1>1, BroadcastStarts, BroadcastStep, PTL DEF BroadcastSpec

-------------------------------------------------------------------------------
(* The rate limit.  The counter alone does not say that the limit is kept:  *)
(* the inductive invariant ties it to the requests, as many of which are    *)
(* admitted as were counted, up to Limit.                                   *)

HitInv(h) ==
  /\ hit[h].phase = "new" => hit[h].owner = NoOwner /\ hit[h].count = 0
  /\ hit[h].phase = "counting" => hit[h].owner \in Owners /\ hit[h].count = 0
  /\ hit[h].phase = "passed" =>
       hit[h].owner = NoOwner \/ hit[h].count \in 1 .. Limit
  /\ hit[h].phase = "rejected" => hit[h].owner \in Owners /\ hit[h].count > Limit
  /\ hit[h].owner \in Owners => hit[h].count <= counter[hit[h].owner][hit[h].minute]

AdmittedAreCounted(o, m) ==
  Cardinality(Admitted(o, m)) =
    IF counter[o][m] < Limit THEN counter[o][m] ELSE Limit

RateInv ==
  /\ RateTypeOK
  /\ \A h \in Hits : HitInv(h)
  /\ \A o \in Owners, m \in 0 .. MaxMinute : AdmittedAreCounted(o, m)

(* There are finitely many requests, so the sets of them are finite.        *)
LEMMA FiniteHits ==
  ASSUME NEW o, NEW m
  PROVE  /\ IsFiniteSet(Admitted(o, m)) /\ IsFiniteSet(Passed(o, m))
         /\ Admitted(o, m) \subseteq Hits /\ Passed(o, m) \subseteq Hits
<1>1. Admitted(o, m) \subseteq Hits /\ Passed(o, m) \subseteq Hits
  BY DEF Admitted, Counted, OfMinute, Passed
<1> QED  BY <1>1, RateLimitConstants, FS_Subset

(* Nothing is counted at the start.                                         *)
LEMMA RateInitInv == RateInit => RateInv
<1> SUFFICES ASSUME RateInit PROVE RateInv  OBVIOUS
<1> USE RateLimitConstants
<1>1. RateTypeOK  BY DEF RateInit, RateTypeOK, Hit
<1>2. \A h \in Hits : HitInv(h)  BY DEF RateInit, HitInv
<1>3. ASSUME NEW o \in Owners, NEW m \in 0 .. MaxMinute
      PROVE  AdmittedAreCounted(o, m)
  <2>1. Admitted(o, m) = {}  BY DEF Admitted, Counted, OfMinute, RateInit
  <2>2. counter[o][m] = 0  BY DEF RateInit
  <2> QED  BY <2>1, <2>2, FS_EmptySet DEF AdmittedAreCounted
<1> QED  BY <1>1, <1>2, <1>3 DEF RateInv

(* A step that counts nothing admits nobody.                                *)
LEMMA NothingCounted ==
  ASSUME RateInv, UNCHANGED counter,
         \A g \in Hits : hit'[g].count = hit[g].count,
         \A g \in Hits : hit[g].count # 0 =>
           hit'[g].owner = hit[g].owner /\ hit'[g].minute = hit[g].minute
  PROVE  \A o \in Owners, m \in 0 .. MaxMinute : AdmittedAreCounted(o, m)'
<1> SUFFICES ASSUME NEW o \in Owners, NEW m \in 0 .. MaxMinute
             PROVE  AdmittedAreCounted(o, m)'
  OBVIOUS
<1>1. Admitted(o, m)' = Admitted(o, m)
  BY DEF Admitted, Counted, OfMinute
<1> QED  BY <1>1 DEF RateInv, AdmittedAreCounted

(* A request that is counted becomes the next one of its owner and minute,  *)
(* and is admitted if fewer than Limit were.                                *)
LEMMA CountedNext ==
  ASSUME RateInv, NEW h \in Hits, hit[h].phase = "counting",
         counter' = [counter EXCEPT ![hit[h].owner][hit[h].minute] = Count(h)],
         \A g \in Hits : g # h => hit'[g] = hit[g],
         hit'[h].count = Count(h),
         hit'[h].owner = hit[h].owner, hit'[h].minute = hit[h].minute
  PROVE  /\ \A o \in Owners, m \in 0 .. MaxMinute : AdmittedAreCounted(o, m)'
         /\ \A o \in Owners, m \in 0 .. MaxMinute : counter[o][m] <= counter'[o][m]
         /\ counter'[hit[h].owner][hit[h].minute] = Count(h)
         /\ counter' \in [Owners -> [0 .. MaxMinute -> Nat]]
<1> DEFINE own == hit[h].owner  min == hit[h].minute
<1> USE RateLimitConstants
<1>1. /\ own \in Owners /\ min \in 0 .. MaxMinute /\ hit[h].count = 0
      /\ counter \in [Owners -> [0 .. MaxMinute -> Nat]]
  BY DEF RateInv, RateTypeOK, Hit, HitInv
<1>2. Count(h) = counter[own][min] + 1 /\ Count(h) \in Nat /\ counter[own][min] \in Nat
  BY <1>1 DEF Count
<1> HIDE DEF own, min
<1>3. counter' = [counter EXCEPT ![own][min] = Count(h)]  BY DEF own, min
<1>4. \A o \in Owners, m \in 0 .. MaxMinute :
        counter'[o][m] = IF o = own /\ m = min THEN Count(h) ELSE counter[o][m]
  BY <1>1, <1>3
<1>5. counter' \in [Owners -> [0 .. MaxMinute -> Nat]]
  <2> DEFINE row == [counter[own] EXCEPT ![min] = Count(h)]
  <2>1. row \in [0 .. MaxMinute -> Nat]  BY <1>1, <1>2
  <2>2. counter' = [counter EXCEPT ![own] = row]  BY <1>3
  <2> HIDE DEF row
  <2> QED  BY <1>1, <2>1, <2>2
<1>6. \A o \in Owners, m \in 0 .. MaxMinute : counter[o][m] <= counter'[o][m]
  BY <1>1, <1>2, <1>4
<1>7. ASSUME NEW o \in Owners, NEW m \in 0 .. MaxMinute
      PROVE  AdmittedAreCounted(o, m)'
  <2>1. AdmittedAreCounted(o, m)  BY DEF RateInv
  <2>2. h \notin Admitted(o, m)  BY <1>1 DEF Admitted, Counted
  <2>3. \A g \in Hits : hit[g].count \in Nat  BY DEF RateInv, RateTypeOK, Hit
  <2>4. CASE o = own /\ m = min /\ Count(h) <= Limit
    <3>1. Admitted(o, m)' = Admitted(o, m) \cup {h}
      BY <1>1, <1>2, <2>4, <2>3 DEF Admitted, Counted, OfMinute, own, min
    <3>2. Cardinality(Admitted(o, m)') = Cardinality(Admitted(o, m)) + 1
      BY <3>1, <2>2, FiniteHits, FS_AddElement
    <3>3. counter[o][m] < Limit /\ counter'[o][m] = counter[o][m] + 1
      BY <1>1, <1>2, <1>4, <2>4
    <3>4. Cardinality(Admitted(o, m)) = counter[o][m]
      BY <2>1, <3>3 DEF AdmittedAreCounted
    <3>5. Cardinality(Admitted(o, m)') = counter'[o][m]  BY <3>2, <3>3, <3>4
    <3> QED  BY <1>2, <2>4, <3>3, <3>5 DEF AdmittedAreCounted
  <2>5. CASE ~ (o = own /\ m = min /\ Count(h) <= Limit)
    <3>1. h \notin Admitted(o, m)'
      BY <1>1, <1>2, <2>5 DEF Admitted, Counted, OfMinute, own, min
    <3>2. Admitted(o, m)' = Admitted(o, m)
      BY <2>2, <3>1 DEF Admitted, Counted, OfMinute
    <3>3. (IF counter'[o][m] < Limit THEN counter'[o][m] ELSE Limit)
            = (IF counter[o][m] < Limit THEN counter[o][m] ELSE Limit)
      <4>1. CASE o = own /\ m = min
        BY <1>1, <1>2, <1>4, <2>5, <4>1
      <4>2. CASE ~ (o = own /\ m = min)
        <5>1. counter'[o][m] = counter[o][m]  BY <1>4, <4>2
        <5> QED  BY <5>1
      <4> QED  BY <4>1, <4>2
    <3> QED  BY <2>1, <3>2, <3>3 DEF AdmittedAreCounted
  <2> QED  BY <2>4, <2>5
<1>8. counter'[hit[h].owner][hit[h].minute] = Count(h)  BY <1>1, <1>4 DEF own, min
<1> QED  BY <1>5, <1>6, <1>7, <1>8

(* Every step keeps the invariant.                                          *)
LEMMA RateStepInv == RateInv /\ [RateNext]_rateVars => RateInv'
<1> SUFFICES ASSUME RateInv, [RateNext]_rateVars PROVE RateInv'  OBVIOUS
<1> USE RateLimitConstants
<1>0. /\ RateTypeOK /\ \A g \in Hits : HitInv(g)
      /\ \A g \in Hits : hit[g] \in Hit /\ hit[g].count \in Nat
  BY DEF RateInv, RateTypeOK, Hit
<1>1. CASE Tick
  <2>1. RateTypeOK'  BY <1>0, <1>1 DEF RateTypeOK, Tick
  <2>2. \A g \in Hits : HitInv(g)'  BY <1>0, <1>1 DEF HitInv, Tick
  <2>3. hit' = hit /\ counter' = counter  BY <1>1 DEF Tick
  <2>4. \A o \in Owners, m \in 0 .. MaxMinute : AdmittedAreCounted(o, m)'
    BY <2>3, NothingCounted
  <2> QED  BY <2>1, <2>2, <2>4 DEF RateInv
<1>2. ASSUME NEW h \in Hits, ArriveUnnamed(h) PROVE RateInv'
  <2>1. /\ hit' = [hit EXCEPT ![h].phase = "passed"]
        /\ hit[h].phase = "new" /\ minute' = minute /\ counter' = counter
    BY <1>2 DEF ArriveUnnamed
  <2>2. /\ \A g \in Hits : g # h => hit'[g] = hit[g]
        /\ hit'[h].owner = hit[h].owner /\ hit'[h].minute = hit[h].minute
        /\ hit'[h].count = hit[h].count /\ hit'[h].phase = "passed"
    BY <1>0, <2>1 DEF RateTypeOK, Hit
  <2>3. RateTypeOK'  BY <1>0, <2>1 DEF RateTypeOK, Hit
  <2>4. \A g \in Hits : HitInv(g)'  BY <1>0, <2>1, <2>2 DEF HitInv
  <2>5. \A o \in Owners, m \in 0 .. MaxMinute : AdmittedAreCounted(o, m)'
    BY <2>1, <2>2, NothingCounted
  <2> QED  BY <2>3, <2>4, <2>5 DEF RateInv
<1>3. ASSUME NEW h \in Hits, NEW o \in Owners, Arrive(h, o) PROVE RateInv'
  <2>1. /\ hit' = [hit EXCEPT ![h].phase = "counting", ![h].owner = o,
                              ![h].minute = minute]
        /\ hit[h].phase = "new" /\ minute' = minute /\ counter' = counter
    BY <1>3 DEF Arrive
  <2>2. /\ \A g \in Hits : g # h => hit'[g] = hit[g]
        /\ hit'[h].owner = o /\ hit'[h].minute = minute
        /\ hit'[h].count = hit[h].count /\ hit'[h].phase = "counting"
        /\ hit[h].count = 0
    BY <1>0, <2>1 DEF RateTypeOK, Hit, HitInv
  <2>3. RateTypeOK'  BY <1>0, <2>1 DEF RateTypeOK, Hit
  <2>4. 0 <= counter'[hit'[h].owner][hit'[h].minute]
    <3>1. counter[o][minute] \in Nat  BY <1>0 DEF RateTypeOK
    <3> QED  BY <2>1, <2>2, <3>1
  <2>5. \A g \in Hits : HitInv(g)'
    <3>1. HitInv(h)'  BY <2>2, <2>4 DEF HitInv
    <3>2. \A g \in Hits : g # h => HitInv(g)'  BY <1>0, <2>1, <2>2 DEF HitInv
    <3> QED  BY <3>1, <3>2
  <2>6. \A p \in Owners, m \in 0 .. MaxMinute : AdmittedAreCounted(p, m)'
    BY <2>1, <2>2, NothingCounted
  <2> QED  BY <2>3, <2>5, <2>6 DEF RateInv
<1>4. ASSUME NEW h \in Hits, DatabaseFails(h) PROVE RateInv'
  <2>1. /\ hit' = [hit EXCEPT ![h].phase = "failed"]
        /\ hit[h].phase = "counting" /\ minute' = minute /\ counter' = counter
    BY <1>4 DEF DatabaseFails
  <2>2. /\ \A g \in Hits : g # h => hit'[g] = hit[g]
        /\ hit'[h].owner = hit[h].owner /\ hit'[h].minute = hit[h].minute
        /\ hit'[h].count = hit[h].count /\ hit'[h].phase = "failed"
    BY <1>0, <2>1 DEF RateTypeOK, Hit
  <2>3. RateTypeOK'  BY <1>0, <2>1 DEF RateTypeOK, Hit
  <2>4. \A g \in Hits : HitInv(g)'  BY <1>0, <2>1, <2>2 DEF HitInv
  <2>5. \A o \in Owners, m \in 0 .. MaxMinute : AdmittedAreCounted(o, m)'
    BY <2>1, <2>2, NothingCounted
  <2> QED  BY <2>3, <2>4, <2>5 DEF RateInv
<1>5. ASSUME NEW h \in Hits, IncrementAndCheck(h) \/ CommitLost(h) PROVE RateInv'
  <2>1. /\ hit[h].phase = "counting" /\ minute' = minute
        /\ counter' = [counter EXCEPT ![hit[h].owner][hit[h].minute] = Count(h)]
    BY <1>5 DEF IncrementAndCheck, CommitLost
  <2>2. /\ hit[h].owner \in Owners /\ hit[h].minute \in 0 .. MaxMinute
        /\ Count(h) \in Nat \ {0}
    BY <1>0, <2>1 DEF RateTypeOK, Hit, HitInv, Count
  <2>3. PICK p \in {"passed", "rejected", "failed"} :
          /\ hit' = [hit EXCEPT ![h].count = Count(h), ![h].phase = p]
          /\ p = "passed" => Count(h) <= Limit
          /\ p = "rejected" => Count(h) > Limit
    <3>1. CASE IncrementAndCheck(h)
      <4>1. CASE Count(h) <= Limit  BY <3>1, <4>1 DEF IncrementAndCheck
      <4>2. CASE ~ (Count(h) <= Limit)
        BY <2>2, <3>1, <4>2 DEF IncrementAndCheck
      <4> QED  BY <4>1, <4>2
    <3>2. CASE CommitLost(h)  BY <3>2 DEF CommitLost
    <3> QED  BY <1>5, <3>1, <3>2
  <2>4. /\ \A g \in Hits : g # h => hit'[g] = hit[g]
        /\ hit'[h].owner = hit[h].owner /\ hit'[h].minute = hit[h].minute
        /\ hit'[h].count = Count(h) /\ hit'[h].phase = p
    BY <1>0, <2>3 DEF RateTypeOK, Hit
  <2>5. /\ \A o \in Owners, m \in 0 .. MaxMinute : AdmittedAreCounted(o, m)'
        /\ \A o \in Owners, m \in 0 .. MaxMinute : counter[o][m] <= counter'[o][m]
        /\ counter'[hit[h].owner][hit[h].minute] = Count(h)
        /\ counter' \in [Owners -> [0 .. MaxMinute -> Nat]]
    BY <2>1, <2>4, CountedNext
  <2>6. RateTypeOK'  BY <1>0, <2>1, <2>2, <2>3, <2>5 DEF RateTypeOK, Hit
  <2>7. HitInv(h)'  BY <2>2, <2>3, <2>4, <2>5 DEF HitInv
  <2>8. ASSUME NEW g \in Hits, g # h PROVE HitInv(g)'
    <3>1. hit'[g] = hit[g] /\ HitInv(g) /\ hit[g].count \in Nat
          /\ hit[g].minute \in 0 .. MaxMinute
      BY <1>0, <2>4, <2>8 DEF Hit
    <3>2. hit[g].owner \in Owners =>
            hit[g].count <= counter'[hit[g].owner][hit[g].minute]
      <4> SUFFICES ASSUME hit[g].owner \in Owners
                   PROVE  hit[g].count <= counter'[hit[g].owner][hit[g].minute]
        OBVIOUS
      <4> DEFINE was == counter[hit[g].owner][hit[g].minute]
                 is == counter'[hit[g].owner][hit[g].minute]
      <4>1. was <= is  BY <2>5, <3>1
      <4>2. hit[g].count <= was  BY <3>1 DEF HitInv
      <4>3. was \in Nat /\ is \in Nat
        <5>1. counter \in [Owners -> [0 .. MaxMinute -> Nat]]
          BY <1>0 DEF RateTypeOK
        <5>2. was \in Nat
          BY <3>1, <5>1
        <5>3. is \in Nat
          BY <2>5, <3>1
        <5> QED
          BY <5>2, <5>3
      <4> HIDE DEF was, is
      <4>4. hit[g].count <= is  BY <4>1, <4>2, <4>3, <3>1
      <4> QED  BY <4>4 DEF is
    <3> QED  BY <3>1, <3>2 DEF HitInv
  <2>9. \A g \in Hits : HitInv(g)'  BY <2>7, <2>8
  <2> QED  BY <2>5, <2>6, <2>9 DEF RateInv
<1>6. CASE UNCHANGED rateVars
  <2>1. hit' = hit /\ counter' = counter /\ minute' = minute  BY <1>6 DEF rateVars
  <2>2. \A o \in Owners, m \in 0 .. MaxMinute : AdmittedAreCounted(o, m)'
    BY <2>1, NothingCounted
  <2> QED  BY <1>0, <2>1, <2>2 DEF RateInv, RateTypeOK, HitInv
<1> QED  BY <1>1, <1>2, <1>3, <1>4, <1>5, <1>6 DEF RateNext

(* The invariant gives the bound: who passes was admitted, and who is       *)
(* turned away found the counter beyond the limit.                          *)
LEMMA RateInvLimit == RateInv => LimitKept
<1> SUFFICES ASSUME RateInv, NEW o \in Owners, NEW m \in 0 .. MaxMinute
             PROVE  /\ Cardinality(Passed(o, m)) <= Limit
                    /\ Rejected(o, m) # {} => Cardinality(Admitted(o, m)) = Limit
  BY DEF LimitKept
<1> USE RateLimitConstants
<1>0. /\ \A h \in Hits : HitInv(h) /\ hit[h].count \in Nat
      /\ AdmittedAreCounted(o, m) /\ counter[o][m] \in Nat
  BY DEF RateInv, RateTypeOK, Hit
<1>1. Passed(o, m) \subseteq Admitted(o, m)
  BY <1>0 DEF Passed, Admitted, Counted, OfMinute, HitInv
<1>2. Cardinality(Passed(o, m)) <= Cardinality(Admitted(o, m))
  BY <1>1, FiniteHits, FS_Subset
<1>3. Cardinality(Passed(o, m)) \in Nat  BY FiniteHits, FS_CardinalityType
<1>4. Cardinality(Admitted(o, m)) <= Limit /\ Cardinality(Admitted(o, m)) \in Nat
  BY <1>0 DEF AdmittedAreCounted
<1>5. Cardinality(Passed(o, m)) <= Limit  BY <1>2, <1>3, <1>4
<1>6. ASSUME Rejected(o, m) # {} PROVE Cardinality(Admitted(o, m)) = Limit
  <2>1. PICK h \in Hits :
          hit[h].owner = o /\ hit[h].minute = m /\ hit[h].phase = "rejected"
    BY <1>6 DEF Rejected, OfMinute
  <2>2. counter[o][m] > Limit  BY <1>0, <2>1 DEF HitInv
  <2> QED  BY <1>0, <2>2 DEF AdmittedAreCounted
<1> QED  BY <1>5, <1>6

(* Of the requests of an owner in a minute no more than Limit pass, and     *)
(* none is turned away before Limit others were counted, however many       *)
(* requests of however many owners overlap.                                 *)
THEOREM LimitIsKept == RateSpec => []LimitKept
<1>1. RateSpec => []RateInv  BY RateInitInv, RateStepInv, PTL DEF RateSpec
<1> QED  BY <1>1, RateInvLimit, PTL

===============================================================================
