----------------------------- MODULE PromptContext -----------------------------
(***************************************************************************)
(* What an answer is asked for with: the system prompt of the owner's      *)
(* bucket (src/app/chat/prompt_selection.py) and a history cut to a budget *)
(* of tokens (src/app/chat/context.py).  Two choices that do not meet.     *)
(***************************************************************************)
EXTENDS Integers, Sequences, FiniteSets, FiniteSetsExt

CONSTANTS
  Buckets,      \* 100 in the code; traffic_pct is counted in them
  MaxPrompts,   \* bound: rows of system_prompts
  Overhead,     \* tokens of a list of messages beside those of its messages
  MaxTokens,    \* bound: tokens of a message
  MaxHistory,   \* bound: messages of a history
  NoPrompt,
  NotYet

ASSUME PromptConstants ==
  /\ Buckets \in Nat \ {0} /\ MaxPrompts \in Nat
  /\ Overhead \in Nat /\ MaxTokens \in Nat /\ MaxHistory \in Nat

ASSUME NoPromptIsNone == NoPrompt \notin Nat

VARIABLES
  prompts,    \* system_prompts, the oldest first
  chatPrompt, \* "own": the chat has a system prompt of its own
  system,     \* the prompt that is sent
  history,
  budget,
  context     \* the history that is sent

promptVars == <<prompts, chatPrompt, system>>
contextVars == <<history, budget, context>>

Prompt == [active : {"yes", "no"}, trafficPct : 0 .. Buckets]
Message == [role : {"system", "other"}, tokens : 1 .. MaxTokens]
UpTo(n, S) == UNION {[1 .. k -> S] : k \in 0 .. n}

PromptTypeOK ==
  /\ prompts \in Seq(Prompt) /\ chatPrompt \in {"own", "none"}
  /\ system \in {NoPrompt, 0} \cup DOMAIN prompts
ContextTypeOK ==
  /\ history \in Seq(Message) /\ budget \in Nat
  /\ context = NotYet \/ context \subseteq DOMAIN history

PromptInit ==
  /\ prompts \in UpTo(MaxPrompts, Prompt) /\ chatPrompt \in {"own", "none"}
  /\ system = NoPrompt
ContextInit ==
  /\ history \in UpTo(MaxHistory, Message)
  /\ budget \in 0 .. Overhead + MaxTokens * MaxHistory
  /\ context = NotYet

-------------------------------------------------------------------------------
(* The candidates; they come newest first, the last of prompts first.       *)
ListActive ==
  {i \in DOMAIN prompts : prompts[i].active = "yes" /\ prompts[i].trafficPct > 0}

(* The sum of their trafficPct: so many pairs of a prompt and a percent.    *)
Percents(ps) == {x \in ps \X (1 .. Buckets) : x[2] <= prompts[x[1]].trafficPct}
Percent(ps) == Cardinality(Percents(ps))

Cumulative(i) == Percent({j \in ListActive : j >= i})

(* Faulty variant: the bound of a share is taken for a part of it.          *)
ChooseBySplitInclusive(bucket) ==
  LET within == {i \in ListActive : bucket <= Cumulative(i)}
  IN  IF ListActive = {} THEN NoPrompt
      ELSE IF Cardinality(ListActive) = 1 \/ within = {} THEN Max(ListActive)
      ELSE Max(within)

(* The first candidate whose cumulative share is beyond the bucket; a gap   *)
(* is the newest's.                                                         *)
ChooseBySplit(bucket) ==
  LET within == {i \in ListActive : bucket < Cumulative(i)}
  IN  IF ListActive = {} THEN NoPrompt
      ELSE IF Cardinality(ListActive) = 1 \/ within = {} THEN Max(ListActive)
      ELSE Max(within)

(* The prompt of the split, or the chat's own (0), or none.                 *)
PickPrompt(bucket) ==
  /\ system' = LET chosen == ChooseBySplit(bucket)
               IN  IF chosen # NoPrompt THEN chosen
                   ELSE IF chatPrompt = "own" THEN 0 ELSE NoPrompt
  /\ UNCHANGED <<prompts, chatPrompt>>

-------------------------------------------------------------------------------
(* The tokens of messages, each a pair of its message and its place there.  *)
Tokens(ms) == {x \in ms \X (1 .. MaxTokens) : x[2] <= history[x[1]].tokens}
CountTokens(ms) == Cardinality(Tokens(ms)) + Overhead

Systems == {i \in DOMAIN history : history[i].role = "system"}
Rest == DOMAIN history \ Systems

(* Faulty variant: the newest are dropped.                                  *)
FitDroppingNewest ==
  LET kept(n) == Systems \cup {i \in Rest : i < n}
  IN  IF CountTokens(DOMAIN history) <= budget THEN DOMAIN history
      ELSE IF CountTokens(Systems) >= budget THEN Systems
      ELSE kept(Max({n \in 1 .. Len(history) + 1 : CountTokens(kept(n)) <= budget}))

(* All that fits; or the system messages alone; or these and the history    *)
(* without as many of its oldest as it takes.                               *)
FitToBudget ==
  LET kept(n) == Systems \cup {i \in Rest : i >= n}
  IN  IF CountTokens(DOMAIN history) <= budget THEN DOMAIN history
      ELSE IF CountTokens(Systems) >= budget THEN Systems
      ELSE kept(Min({n \in 1 .. Len(history) + 1 : CountTokens(kept(n)) <= budget}))

Fit ==
  /\ context' = FitToBudget
  /\ UNCHANGED <<history, budget>>

PromptNext == \E bucket \in 0 .. Buckets - 1 : PickPrompt(bucket)
ContextNext == context = NotYet /\ Fit

PromptSpec == PromptInit /\ [][PromptNext]_promptVars
ContextSpec == ContextInit /\ [][ContextNext]_contextVars

-------------------------------------------------------------------------------
Share(i) == Cardinality({b \in 0 .. Buckets - 1 : ChooseBySplit(b) = i})

(* Every prompt gets the share of the owners it was given, to the bucket:   *)
(* never more, but for the newest, which has what is left over; and not     *)
(* less, as long as the shares do not exceed the whole.                     *)
SharesKept ==
  \A i \in DOMAIN prompts :
    IF i \notin ListActive THEN Share(i) = 0
    ELSE /\ i # Max(ListActive) => Share(i) <= prompts[i].trafficPct
         /\ Percent(ListActive) <= Buckets => Share(i) >= prompts[i].trafficPct

(* A cut history keeps every system message and, of the others, the end of  *)
(* the conversation; it stays within the budget unless the system messages  *)
(* alone do not, and gives up nothing that would have fitted.               *)
EndKept ==
  context # NotYet =>
    /\ Systems \subseteq context
    /\ \A i, j \in Rest : i < j /\ i \in context => j \in context
    /\ CountTokens(context) <= budget \/ context = Systems
    /\ CountTokens(Systems) < budget =>
         \A i \in Rest \ context :
           CountTokens(context \cup {j \in Rest : j >= i}) > budget

(* The inductive invariants behind these.                                   *)
PromptInv == prompts \in Seq(Prompt)

ContextInv ==
  /\ history \in Seq(Message) /\ budget \in Nat
  /\ context = NotYet \/ context = FitToBudget
===============================================================================
