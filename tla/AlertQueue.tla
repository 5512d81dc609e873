------------------------------ MODULE AlertQueue ------------------------------
(***************************************************************************)
(* Alerts (src/app/services/alerter.py): the table; who writes into it,    *)
(* moderation (src/app/moderation/service.py) and the handoff of a chat    *)
(* (src/app/admin/routes.py); and who empties it, the loop of the bot      *)
(* (src/bot/services/alert_drain.py) and the admin's own acknowledgements. *)
(* At this commit the bot does not start its loop.                         *)
(***************************************************************************)
EXTENDS Naturals, Sequences, FiniteSets, FiniteSetsExt

CONSTANTS
  Jobs,              \* checks of an input, requests for a handoff
  ChatOwners,
  DrainRuns,         \* is drain_alerts started, with a client that can fetch
                     \* and acknowledge?  It is not: bot/__main__.py:102
  FetchLimit,        \* alerts fetched at a time
  MaxUndeliverable,  \* bound: alerts that Telegram refuses for ever
  MaxFaults          \* bound: failures of the drain that pass

ASSUME AlertConstants ==
  /\ DrainRuns \in BOOLEAN
  /\ FetchLimit \in Nat \ {0} /\ ChatOwners # {}
  /\ MaxUndeliverable \in Nat /\ MaxFaults \in Nat

VARIABLES
  alerts,      \* the table, in the order of created_at
  job,
  status,      \* owner -> handoff_status of his chat, or "no chat"
  drainStep,   \* what the drain does with the head of its batch
  batch,       \* the ids it has fetched and not dealt with
  faults

alertVars == <<alerts, job, status, drainStep, batch, faults>>

HandoffStatuses == {"active", "paused_for_human", "resolved"}

Alert == [by : Jobs,
          deliverable : BOOLEAN,
          acked : {"no", "drain", "admin"},
          sent : Nat,               \* history
          unacknowledged : Nat]     \* history: sent, and then not acknowledged

Job == [kind : {"none", "moderation", "handoff"},
        phase : {"new", "classifying", "alerting", "notifying", "done"},
        owner : ChatOwners,
        result : {"none", "allowed", "blocked", "ok", "error"},
        stored : {"no", "yes", "failed"}]   \* history: the alert

AlertTypeOK ==
  /\ alerts \in Seq(Alert)
  /\ job \in [Jobs -> Job]
  /\ status \in [ChatOwners -> HandoffStatuses \cup {"no chat"}]
  /\ drainStep \in {"fetch", "send", "ack"}
  /\ batch \subseteq DOMAIN alerts
  /\ faults \in 0 .. MaxFaults

AlertInit ==
  /\ alerts = <<>>
  /\ job = [j \in Jobs |->
       [kind |-> "none", phase |-> "new", owner |-> CHOOSE o \in ChatOwners : TRUE,
        result |-> "none", stored |-> "no"]]
  /\ status \in [ChatOwners -> {"active", "no chat"}]
  /\ drainStep = "fetch" /\ batch = {}
  /\ faults = 0

drainVars == <<drainStep, batch, faults>>

-------------------------------------------------------------------------------
(* ModerationService.check_input.  A text on the list is blocked; an empty  *)
(* one is allowed, and so is every other when OpenAI is not asked           *)
(* (use_openai_moderation).                                                 *)
CheckInput(j, text) ==
  /\ job[j].phase = "new"
  /\ job' = [job EXCEPT ![j].kind = "moderation",
       ![j].phase = CASE text = "listed" -> "alerting"
                      [] text = "for OpenAI" -> "classifying"
                      [] OTHER -> "done",
       ![j].result = CASE text = "listed" -> "blocked"
                       [] text = "for OpenAI" -> "none"
                       [] OTHER -> "allowed"]
  /\ UNCHANGED <<alerts, status, drainVars>>

Flagged(j) ==
  /\ job[j].phase = "classifying"
  /\ job' = [job EXCEPT ![j].phase = "alerting", ![j].result = "blocked"]
  /\ UNCHANGED <<alerts, status, drainVars>>

(* Not flagged, or no answer: without OpenAI every input is allowed.        *)
NotFlagged(j) ==
  /\ job[j].phase = "classifying"
  /\ job' = [job EXCEPT ![j].phase = "done", ![j].result = "allowed"]
  /\ UNCHANGED <<alerts, status, drainVars>>

-------------------------------------------------------------------------------
(* POST /chats/admin/handoff: the UPDATE, with its commit.  An unknown      *)
(* status is refused before it.                                             *)
SetHandoffStatus(j, o, s) ==
  /\ job[j].phase = "new"
  /\ LET affected == s \in HandoffStatuses /\ status[o] # "no chat"
         alerting == affected /\ s = "paused_for_human"
     IN /\ status' = IF affected THEN [status EXCEPT ![o] = s] ELSE status
        /\ job' = [job EXCEPT ![j] =
             [@ EXCEPT !.kind = "handoff", !.owner = o,
                !.phase = IF alerting THEN "alerting" ELSE "done",
                !.result = IF alerting THEN "none"
                           ELSE IF s \in HandoffStatuses THEN "ok" ELSE "error"]]
  /\ UNCHANGED <<alerts, drainVars>>

(* The database fails and the status stays.                                 *)
HandoffFails(j, o) ==
  /\ job[j].phase = "new"
  /\ job' = [job EXCEPT ![j].kind = "handoff", ![j].owner = o,
                        ![j].phase = "done", ![j].result = "error"]
  /\ UNCHANGED <<alerts, status, drainVars>>

AfterAlert(j) == IF job[j].kind = "handoff" THEN "notifying" ELSE "done"

(* Faulty variant: one alert per owner.                                     *)
FireAlertOnce(j, deliverable) ==
  /\ job[j].phase = "alerting"
  /\ alerts' = IF \E i \in DOMAIN alerts : job[alerts[i].by].owner = job[j].owner
               THEN alerts
               ELSE Append(alerts, [by |-> j, deliverable |-> deliverable,
                                    acked |-> "no", sent |-> 0,
                                    unacknowledged |-> 0])
  /\ job' = [job EXCEPT ![j].phase = AfterAlert(j), ![j].stored = "yes"]
  /\ UNCHANGED <<status, drainVars>>

FireAlert(j, deliverable) ==
  /\ job[j].phase = "alerting"
  /\ ~ deliverable =>
       Cardinality({i \in DOMAIN alerts : ~ alerts[i].deliverable})
         < MaxUndeliverable
  /\ alerts' = Append(alerts, [by |-> j, deliverable |-> deliverable,
                               acked |-> "no", sent |-> 0, unacknowledged |-> 0])
  /\ job' = [job EXCEPT ![j].phase = AfterAlert(j), ![j].stored = "yes"]
  /\ UNCHANGED <<status, drainVars>>

(* Moderation only logs the failure; the handoff's request fails, with the  *)
(* status already committed.                                                *)
FireFails(j) ==
  /\ job[j].phase = "alerting"
  /\ job' = [job EXCEPT ![j].phase = "done", ![j].stored = "failed",
       ![j].result = IF job[j].kind = "handoff" THEN "error" ELSE @]
  /\ UNCHANGED <<alerts, status, drainVars>>

(* The user is told, or that failed and is logged.                          *)
NotifyUser(j) ==
  /\ job[j].phase = "notifying"
  /\ job' = [job EXCEPT ![j].phase = "done", ![j].result = "ok"]
  /\ UNCHANGED <<alerts, status, drainVars>>

-------------------------------------------------------------------------------
Oldest(ids) == {i \in ids : Cardinality({k \in ids : k < i}) < FetchLimit}

Pending == {i \in DOMAIN alerts : alerts[i].acked = "no"}

(* Faulty variant: acknowledged alerts are fetched too.                     *)
FetchAny == Oldest(DOMAIN alerts)

(* The oldest alerts that are not acknowledged, up to the limit.            *)
FetchPendingAlerts == Oldest(Pending)

(* The alert whose turn it is.                                              *)
Current == Min(batch)

Done(rest) ==
  /\ batch' = rest
  /\ drainStep' = IF rest = {} THEN "fetch" ELSE "send"

(* The loop, after its pause.  A round that could not fetch, or found none, *)
(* changes nothing.                                                         *)
Fetch ==
  /\ DrainRuns /\ drainStep = "fetch" /\ Pending # {}
  /\ batch' = FetchPendingAlerts /\ drainStep' = "send"
  /\ UNCHANGED <<alerts, job, status, faults>>

SendAlert ==
  /\ drainStep = "send" /\ alerts[Current].deliverable
  /\ alerts' = [alerts EXCEPT ![Current].sent = @ + 1]
  /\ drainStep' = "ack"
  /\ UNCHANGED <<job, status, batch, faults>>

(* What is not sent is logged, and the next one of the batch is tried.  An  *)
(* answer of Telegram that is late is a failure too: the alert was sent.    *)
SendFails ==
  /\ drainStep = "send"
  /\ IF alerts[Current].deliverable
     THEN faults < MaxFaults /\ faults' = faults + 1
     ELSE UNCHANGED faults
  /\ \E sent \in {FALSE, alerts[Current].deliverable} :
       alerts' = IF sent
                 THEN [alerts EXCEPT ![Current].sent = @ + 1,
                                     ![Current].unacknowledged = @ + 1]
                 ELSE alerts
  /\ Done(batch \ {Current})
  /\ UNCHANGED <<job, status>>

AckAlert ==
  /\ drainStep = "ack"
  /\ alerts' = [alerts EXCEPT ![Current].acked = "drain"]
  /\ Done(batch \ {Current})
  /\ UNCHANGED <<job, status, faults>>

(* The alert was sent and stays in the queue.                               *)
AckFails ==
  /\ drainStep = "ack"
  /\ faults < MaxFaults /\ faults' = faults + 1
  /\ alerts' = [alerts EXCEPT ![Current].unacknowledged = @ + 1]
  /\ Done(batch \ {Current})
  /\ UNCHANGED <<job, status>>

(* The bot stops, wherever the loop is, and starts again.                   *)
RestartDrain ==
  /\ drainStep # "fetch"
  /\ faults < MaxFaults /\ faults' = faults + 1
  /\ alerts' = IF drainStep = "ack"
               THEN [alerts EXCEPT ![Current].unacknowledged = @ + 1]
               ELSE alerts
  /\ Done({})
  /\ UNCHANGED <<job, status>>

(* POST /chats/admin/alerts/{id}/ack by somebody other than the drain.      *)
AckByAdmin(i) ==
  /\ alerts[i].acked = "no"
  /\ alerts' = [alerts EXCEPT ![i].acked = "admin"]
  /\ UNCHANGED <<job, status, drainVars>>

-------------------------------------------------------------------------------
DrainStep == Fetch \/ SendAlert \/ SendFails \/ AckAlert \/ AckFails

JobStep(j) ==
  \/ \E text \in {"empty", "listed", "for OpenAI", "unjudged"} : CheckInput(j, text)
  \/ \E o \in ChatOwners :
       \/ \E s \in HandoffStatuses \cup {"unknown"} : SetHandoffStatus(j, o, s)
       \/ HandoffFails(j, o)
  \/ Flagged(j) \/ NotFlagged(j)
  \/ \E deliverable \in BOOLEAN : FireAlert(j, deliverable)
  \/ FireFails(j) \/ NotifyUser(j)

AlertNext ==
  \/ \E j \in Jobs : JobStep(j)
  \/ DrainStep \/ RestartDrain
  \/ \E i \in DOMAIN alerts : AckByAdmin(i)

AlertSpec == AlertInit /\ [][AlertNext]_alertVars

-------------------------------------------------------------------------------
(* The operator hears of every blocked input and of every chat that waits   *)
(* for him: an alert of its own is stored, unless storing it failed or is   *)
(* still to be done.                                                        *)
Announced ==
  /\ \A j \in Jobs :
       job[j].kind = "moderation" /\ job[j].result = "blocked" =>
         \/ job[j].phase = "alerting" \/ job[j].stored = "failed"
         \/ \E i \in DOMAIN alerts : alerts[i].by = j
  /\ \A o \in ChatOwners :
       status[o] = "paused_for_human" =>
         \E j \in Jobs :
           /\ job[j].kind = "handoff" /\ job[j].owner = o
           /\ \/ job[j].phase = "alerting" \/ job[j].stored = "failed"
              \/ \E i \in DOMAIN alerts : alerts[i].by = j

(* At least once, and again only for a reason: an alert the drain has       *)
(* acknowledged was sent, and one is sent again only when the drain failed  *)
(* or stopped after sending it and before the queue knew.                   *)
SentForAReason ==
  \A i \in DOMAIN alerts :
    /\ alerts[i].acked = "drain" => alerts[i].sent > 0
    /\ alerts[i].sent <= alerts[i].unacknowledged + 1

-------------------------------------------------------------------------------
(* The inductive invariant.                                                 *)

(* A job that has not begun is of no kind.                                  *)
NewIsNothing ==
  \A j \in Jobs : job[j].phase = "new" =>
    job[j].kind = "none" /\ job[j].result = "none"

(* The drain has a batch of alerts it has not acknowledged, or none.        *)
BatchIsUnacknowledged ==
  /\ drainStep = "fetch" <=> batch = {}
  /\ \A i \in batch : alerts[i].acked # "drain"

(* The alert being dealt with has been sent, and not yet acknowledged.      *)
InHand(i) == drainStep = "ack" /\ i = Current

(* What was sent is accounted for: by the acknowledgement, by a failure, or *)
(* by being dealt with right now.                                           *)
SentIsAccounted ==
  \A i \in DOMAIN alerts :
    /\ InHand(i) => alerts[i].sent > 0
    /\ alerts[i].acked # "drain" /\ ~ InHand(i) =>
         alerts[i].sent <= alerts[i].unacknowledged

AlertInv ==
  /\ AlertTypeOK /\ Announced
  /\ NewIsNothing /\ BatchIsUnacknowledged /\ SentIsAccounted /\ SentForAReason
===============================================================================
