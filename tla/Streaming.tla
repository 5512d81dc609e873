------------------------------- MODULE Streaming -------------------------------
(***************************************************************************)
(* The answer of the backend on its way into a Telegram chat               *)
(* (src/bot/services/streaming.py): drafts that Telegram forgets and one   *)
(* final message, or a message that is edited as the text grows.  A text   *)
(* is the sequence of the pieces it was received in.                       *)
(***************************************************************************)
EXTENDS Naturals, Sequences, SequencesExt

CONSTANTS
  MaxPieces,    \* bound: pieces of an answer
  NoMessage     \* nothing stands in the chat

ASSUME StreamConstants == MaxPieces \in Nat

VARIABLES
  streamStep,
  buffer,
  savedId,     \* assistant_message_id: "none", or "id" after message_saved
  draft,       \* the text of the draft
  shown,       \* the text of the message in the chat, or NoMessage
  buttons,     \* the message the feedback buttons under it belong to
  refused      \* history: Telegram refused the last edit

streamVars == <<streamStep, buffer, savedId, draft, shown, buttons, refused>>

Pieces == {"word", "blank"}

Rendering == {"drafting", "editing"}
LastTry == {"final draft", "plain draft", "final edit", "plain edit"}

StreamTypeOK ==
  /\ streamStep \in {"new", "ended", "raised"} \cup Rendering \cup LastTry
  /\ buffer \in Seq(Pieces) /\ draft \in Seq(Pieces)
  /\ shown = NoMessage \/ shown \in Seq(Pieces)
  /\ savedId \in {"none", "id"} /\ buttons \in {"none", "id"}
  /\ refused \in {"no", "yes"}

StreamInit ==
  /\ streamStep = "new"
  /\ buffer = <<>> /\ draft = <<>> /\ shown = NoMessage
  /\ savedId = "none" /\ buttons = "none" /\ refused = "no"

-------------------------------------------------------------------------------
(* An empty draft comes first.                                              *)
StartDraft ==
  /\ streamStep = "new" /\ streamStep' = "drafting"
  /\ UNCHANGED <<buffer, savedId, draft, shown, buttons, refused>>

(* There are no drafts, or too many: a message is edited instead.           *)
FallBackToEdits ==
  /\ streamStep = "new" /\ streamStep' = "editing"
  /\ shown' = <<>>
  /\ UNCHANGED <<buffer, savedId, draft, buttons, refused>>

(* What Telegram answers with another error, or a stream that breaks, ends  *)
(* everything where it is.                                                  *)
Raises ==
  /\ streamStep \notin {"ended", "raised"}
  /\ streamStep' = "raised"
  /\ UNCHANGED <<buffer, savedId, draft, shown, buttons, refused>>

(* The text is drawn, or left for later: within the interval, or when       *)
(* Telegram asks for a pause or refuses.  A draft is never blank.           *)
Token(piece) ==
  /\ streamStep \in Rendering /\ Len(buffer) < MaxPieces /\ savedId = "none"
  /\ buffer' = Append(buffer, piece)
  /\ \/ /\ streamStep = "drafting"
        /\ \/ draft' = draft
           \/ "word" \in {buffer'[i] : i \in DOMAIN buffer'} /\ draft' = buffer'
        /\ UNCHANGED shown
     \/ /\ streamStep = "editing"
        /\ shown' = shown \/ shown' = buffer'
        /\ UNCHANGED draft
  /\ UNCHANGED <<streamStep, savedId, buttons, refused>>

(* The backend has stored the answer.                                       *)
MessageSaved ==
  /\ streamStep \in Rendering /\ savedId = "none" /\ buffer # <<>>
  /\ savedId' = "id"
  /\ UNCHANGED <<streamStep, buffer, draft, shown, buttons, refused>>

EndOfStream ==
  /\ streamStep \in Rendering
  /\ streamStep' = IF buffer = <<>> THEN "ended"
                   ELSE IF streamStep = "drafting" THEN "final draft"
                   ELSE "final edit"
  /\ UNCHANGED <<buffer, savedId, draft, shown, buttons, refused>>

(* Telegram does not take the Markdown: the plain text is tried.            *)
MarkdownRefused ==
  /\ streamStep \in {"final draft", "final edit"}
  /\ streamStep' = IF streamStep = "final draft" THEN "plain draft" ELSE "plain edit"
  /\ UNCHANGED <<buffer, savedId, draft, shown, buttons, refused>>

(* Faulty variant: what was drawn last is taken for the answer.             *)
SendFinalAsDrawn ==
  /\ streamStep \in LastTry
  /\ streamStep' = "ended"
  /\ shown' = IF streamStep \in {"final draft", "plain draft"} THEN draft ELSE shown
  /\ buttons' = savedId
  /\ UNCHANGED <<buffer, savedId, draft, refused>>

(* The whole text, with buttons for the stored message, if it was stored.   *)
SendFinal ==
  /\ streamStep \in LastTry
  /\ streamStep' = "ended"
  /\ shown' = buffer /\ buttons' = savedId
  /\ UNCHANGED <<buffer, savedId, draft, refused>>

(* The last edit may be refused, and nobody hears of it.                    *)
FinalEditRefused ==
  /\ streamStep \in {"final edit", "plain edit"}
  /\ streamStep' = "ended" /\ refused' = "yes"
  /\ UNCHANGED <<buffer, savedId, draft, shown, buttons>>

StreamNext ==
  \/ StartDraft \/ FallBackToEdits \/ Raises
  \/ \E piece \in Pieces : Token(piece)
  \/ MessageSaved \/ EndOfStream
  \/ MarkdownRefused \/ SendFinal \/ FinalEditRefused

StreamSpec == StreamInit /\ [][StreamNext]_streamVars

-------------------------------------------------------------------------------
(* However often drawing was put off, the user is left with the whole       *)
(* answer, and with buttons for exactly the message that was stored, unless *)
(* Telegram refused the last edit; and at no time does he see what the      *)
(* answer does not begin with.                                              *)
AnswerShown ==
  /\ IsPrefix(draft, buffer)
  /\ shown # NoMessage => IsPrefix(shown, buffer)
  /\ streamStep = "ended" /\ buffer # <<>> /\ refused = "no" =>
       shown = buffer /\ buttons = savedId

(* The inductive invariant: the properties suffice.                         *)
StreamInv == StreamTypeOK /\ AnswerShown
===============================================================================
