---------------------------- MODULE ServicesProofs -----------------------------
(***************************************************************************)
(* Proofs about the lifespan of the backend, for any settings and any      *)
(* number of commands; the streamed answer, of any length; the graph       *)
(* without a memory, for any limits; the answers from the knowledge base,  *)
(* for any chunks, scores and threshold; the history cut to a budget, of   *)
(* any length; and the split between any number of prompts.                *)
(***************************************************************************)
EXTENDS Lifespan, Streaming, CustomGraph, RagAnswers, PromptContext,
        FiniteSetTheorems, FunctionTheorems, SequenceTheorems,
        WellFoundedInduction, TLAPS

USE LifespanConstants, StreamConstants, CustomGraphConstants, RagConstants,
    PromptConstants

-------------------------------------------------------------------------------
(* The lifespan.                                                            *)

(* LifeInv holds when the process starts.                                   *)
LEMMA LifeInit == LifespanInit => LifeInv
BY DEF LifespanInit, LifeInv, LifespanTypeOK, StateIsOpen, Serving,
       GivenFromState, CommandsHoldTheBot, OpenForAReason, NotYetReleased,
       Starting, Stopping, Ended, Held

(* Opening a component, whether it succeeds or not.                         *)
LEMMA LifeStart == LifeInv /\ StartNext => LifeInv'
<1> USE DEF LifeInv, LifespanTypeOK, StateIsOpen, Serving, GivenFromState,
            CommandsHoldTheBot, OpenForAReason, NotYetReleased,
            Starting, Stopping, Ended, Held,
            Started, NotStarted, LeftOpen, rest
<1>1. LifeInv /\ OpenLLM => LifeInv'
  BY DEF OpenLLM
<1>2. LifeInv /\ ConnectRedis => LifeInv'
  BY DEF ConnectRedis
<1>3. LifeInv /\ CreateEngine => LifeInv'
  BY DEF CreateEngine
<1>4. LifeInv /\ EnsureCollection => LifeInv'
  BY DEF EnsureCollection, AfterQdrant
<1>5. LifeInv /\ StartIngestion => LifeInv'
  BY DEF StartIngestion
<1>6. LifeInv /\ IngestAll => LifeInv'
  BY DEF IngestAll
<1>7. LifeInv /\ BuildRag => LifeInv'
  BY DEF BuildRag
<1>8. LifeInv /\ AuthenticateItilium => LifeInv'
  BY DEF AuthenticateItilium
<1>9. LifeInv /\ EnterAgentLifespan => LifeInv'
  BY DEF EnterAgentLifespan
<1>10. LifeInv /\ InitExpressBot => LifeInv'
  BY DEF InitExpressBot
<1> QED
  BY ONLY <1>1, <1>2, <1>3, <1>4, <1>5, <1>6, <1>7, <1>8, <1>9, <1>10
     DEF StartNext

(* Releasing a component, whether it succeeds or not.                       *)
LEMMA LifeStop == LifeInv /\ StopNext => LifeInv'
<1> USE DEF LifeInv, LifespanTypeOK, StateIsOpen, Serving, GivenFromState,
            CommandsHoldTheBot, OpenForAReason, NotYetReleased,
            Starting, Stopping, Ended, Held,
            Released, ReleaseFails, NothingToRelease, Close
<1>1. ASSUME LifeInv, ShutdownExpressBot PROVE LifeInv'
  <2>1. CASE "express" \notin appState
    <3>1. commands > 0 => "express" \in stopFailed
      BY <1>1, <2>1
    <3> QED
      BY <1>1, <2>1, <3>1 DEF ShutdownExpressBot
  <2>2. CASE "express" \in appState /\ Released("express")
    <3>1. commands' = 0 /\ appState' = appState \ {"express"}
      BY <1>1, <2>2 DEF ShutdownExpressBot
    <3>2. ~ (commands' > 0)
      BY <3>1
    <3>3. CommandsHoldTheBot'
      BY ONLY <3>2 DEF CommandsHoldTheBot
    <3>4. LifespanTypeOK' /\ OpenForAReason'
      BY <1>1, <2>2, <3>1 DEF ShutdownExpressBot
    <3>5. StateIsOpen' /\ GivenFromState'
      BY <1>1, <2>2, <3>1 DEF ShutdownExpressBot
    <3> QED
      BY ONLY <3>3, <3>4, <3>5 DEF LifeInv
  <2>3. CASE "express" \in appState /\ ReleaseFails("express")
    BY <1>1, <2>3 DEF ShutdownExpressBot
  <2> QED
    BY <1>1, <2>1, <2>2, <2>3 DEF ShutdownExpressBot
<1>2. LifeInv /\ CloseAgentStack => LifeInv'
  BY DEF CloseAgentStack
<1>3. LifeInv /\ CloseLLM => LifeInv'
  BY DEF CloseLLM
<1>4. LifeInv /\ CloseRedis => LifeInv'
  BY DEF CloseRedis
<1>5. LifeInv /\ DisposeEngine => LifeInv'
  BY DEF DisposeEngine
<1>6. LifeInv /\ CloseVectorStore => LifeInv'
  BY DEF CloseVectorStore
<1>7. LifeInv /\ CloseRag => LifeInv'
  BY DEF CloseRag
<1>8. LifeInv /\ CloseIngestion => LifeInv'
  BY DEF CloseIngestion
<1> QED
  BY ONLY <1>1, <1>2, <1>3, <1>4, <1>5, <1>6, <1>7, <1>8 DEF StopNext

(* Every step of the lifespan keeps LifeInv.                                *)
LEMMA LifeStep == LifeInv /\ [LifespanNext]_lifeVars => LifeInv'
<1> USE DEF LifeInv, LifespanTypeOK, StateIsOpen, Serving, GivenFromState,
            CommandsHoldTheBot, OpenForAReason, NotYetReleased,
            Starting, Stopping, Ended, Held
<1>1. LifeInv /\ ExpressWebhook => LifeInv'
  BY DEF ExpressWebhook
<1>2. ASSUME LifeInv, CommandEnds PROVE LifeInv'
  <2>1. commands \in 0 .. MaxCommands /\ commands > 0 /\ commands' = commands - 1
    BY <1>2 DEF CommandEnds
  <2>2. commands' \in 0 .. MaxCommands
    BY <2>1
  <2> QED
    BY <1>2, <2>1, <2>2 DEF CommandEnds
<1>3. LifeInv /\ StopServing => LifeInv'
  BY DEF StopServing
<1>4. LifeInv /\ UNCHANGED lifeVars => LifeInv'
  BY DEF lifeVars
<1> QED
  BY ONLY LifeStart, LifeStop, <1>1, <1>2, <1>3, <1>4 DEF LifespanNext

(* The inductive invariant of the lifespan.                                 *)
THEOREM LifeInvariance == LifespanSpec => []LifeInv
BY LifeInit, LifeStep, PTL DEF LifespanSpec

(* The agent and the RAG service outlive every command of the eXpress bot   *)
(* (the order of the finally block), however many are in progress.          *)
THEOREM CommandsSupplied == LifespanSpec => []CommandsHaveTheirAgent
<1>1. LifeInv => CommandsHaveTheirAgent
  BY DEF LifeInv, StateIsOpen, Serving, GivenFromState, CommandsHoldTheBot,
         CommandsHaveTheirAgent
<1> QED
  BY <1>1, LifeInvariance, PTL

(* A complete stop releases everything that did not fail.                   *)
THEOREM StopReleasesAll == LifespanSpec => []OnlyFailuresLeak
<1>1. LifeInv => OnlyFailuresLeak
  BY DEF LifeInv, OpenForAReason, NotYetReleased, OnlyFailuresLeak
<1> QED
  BY <1>1, LifeInvariance, PTL

-------------------------------------------------------------------------------
(* The streamed answer.                                                     *)

(* What a text begins with, it begins with when it has grown.               *)
LEMMA PrefixOfGrown ==
  ASSUME NEW S, NEW s \in Seq(S), NEW t \in Seq(S), NEW e \in S
  PROVE  /\ IsPrefix(t, t)
         /\ IsPrefix(s, t) => IsPrefix(s, Append(t, e))
<1>1. IsPrefix(t, t)
  BY DEF IsPrefix
<1>2. ASSUME IsPrefix(s, t) PROVE IsPrefix(s, Append(t, e))
  <2>1. /\ Len(s) \in Nat /\ Len(t) \in Nat
        /\ Len(s) <= Len(t) /\ SubSeq(s, 1, Len(s)) = SubSeq(t, 1, Len(s))
        /\ Len(Append(t, e)) = Len(t) + 1
    BY <1>2 DEF IsPrefix
  <2>2. SubSeq(Append(t, e), 1, Len(s)) = SubSeq(t, 1, Len(s))
    BY <2>1
  <2> QED
    BY <2>1, <2>2 DEF IsPrefix
<1> QED
  BY <1>1, <1>2

(* Nothing is a prefix of everything.                                       *)
LEMMA EmptyIsPrefix == ASSUME NEW S, NEW t \in Seq(S) PROVE IsPrefix(<<>>, t)
<1>1. SubSeq(<<>>, 1, 0) = <<>> /\ SubSeq(t, 1, 0) = <<>>
  BY SubSeqEmpty
<1>2. Len(<<>>) = 0 /\ Len(t) \in Nat
  OBVIOUS
<1> QED
  BY <1>1, <1>2 DEF IsPrefix

(* StreamInv holds before anything is drawn.                                *)
LEMMA StreamStarts == StreamInit => StreamInv
<1> SUFFICES ASSUME StreamInit PROVE StreamInv
  OBVIOUS
<1>1. StreamTypeOK
  BY DEF StreamInit, StreamTypeOK
<1>2. IsPrefix(draft, buffer)
  <2>1. draft = <<>> /\ buffer \in Seq(Pieces)
    BY DEF StreamInit
  <2> QED
    BY <2>1, EmptyIsPrefix
<1> QED
  BY <1>1, <1>2 DEF StreamInit, StreamInv, AnswerShown

(* A piece arrives, and is drawn or not.                                    *)
LEMMA TokenArrives ==
  ASSUME StreamInv, NEW piece \in Pieces, Token(piece)
  PROVE  StreamInv'
<1>1. StreamTypeOK /\ AnswerShown
  BY DEF StreamInv
<1>2. /\ streamStep \in Rendering /\ streamStep' = streamStep
      /\ buffer' = Append(buffer, piece)
      /\ draft' = draft \/ draft' = buffer'
      /\ shown' = shown \/ shown' = buffer'
      /\ savedId' = savedId /\ buttons' = buttons /\ refused' = refused
  BY DEF Token
<1>3. buffer' \in Seq(Pieces)
  BY <1>1, <1>2 DEF StreamTypeOK
<1>4. StreamTypeOK'
  BY <1>1, <1>2, <1>3 DEF StreamTypeOK
<1>5. IsPrefix(buffer', buffer')
  BY <1>3, PrefixOfGrown
<1>6. IsPrefix(draft, buffer')
  BY <1>1, <1>2, PrefixOfGrown DEF StreamTypeOK, AnswerShown
<1>7. shown # NoMessage => IsPrefix(shown, buffer')
  BY <1>1, <1>2, PrefixOfGrown DEF StreamTypeOK, AnswerShown
<1>8. streamStep' # "ended"
  BY <1>2 DEF Rendering
<1> QED
  BY <1>2, <1>4, <1>5, <1>6, <1>7, <1>8 DEF StreamInv, AnswerShown

(* Every step of the stream keeps StreamInv.                                *)
LEMMA StreamStepKeeps == StreamInv /\ [StreamNext]_streamVars => StreamInv'
<1> SUFFICES ASSUME StreamInv, [StreamNext]_streamVars PROVE StreamInv'
  OBVIOUS
<1> USE DEF StreamInv, StreamTypeOK, AnswerShown, Rendering, LastTry
<1>1. CASE StartDraft
  BY <1>1 DEF StartDraft
<1>2. CASE FallBackToEdits
  <2>1. IsPrefix(<<>>, buffer)
    BY EmptyIsPrefix
  <2> QED
    BY <1>2, <2>1 DEF FallBackToEdits
<1>3. CASE Raises
  BY <1>3 DEF Raises
<1>4. CASE \E piece \in Pieces : Token(piece)
  BY ONLY <1>4, TokenArrives, StreamInv
<1>5. CASE MessageSaved
  BY <1>5 DEF MessageSaved
<1>6. CASE EndOfStream
  BY <1>6 DEF EndOfStream
<1>7. CASE MarkdownRefused
  BY <1>7 DEF MarkdownRefused
<1>8. CASE SendFinal
  <2>1. IsPrefix(buffer, buffer)
    BY PrefixOfGrown DEF Pieces
  <2> QED
    BY <1>8, <2>1 DEF SendFinal
<1>9. CASE FinalEditRefused
  BY <1>9 DEF FinalEditRefused
<1>10. CASE UNCHANGED streamVars
  BY <1>10 DEF streamVars
<1> QED
  BY <1>1, <1>2, <1>3, <1>4, <1>5, <1>6, <1>7, <1>8, <1>9, <1>10 DEF StreamNext

(* The user is left with the whole answer, and never sees what it does not  *)
(* begin with, for answers of any length.                                   *)
THEOREM WholeAnswerShown == StreamSpec => []AnswerShown
<1>1. StreamInv => AnswerShown
  BY DEF StreamInv
<1> QED
  BY <1>1, StreamStarts, StreamStepKeeps, PTL DEF StreamSpec

-------------------------------------------------------------------------------
(* The graph without a memory.                                              *)

(* The ids of a message's calls are a sequence of calls.                    *)
LEMMA IdsOfMessage ==
  ASSUME NEW names \in Seq(Names), Len(names) <= MaxToolCalls,
         NEW n \in 1 .. MaxIterations
  PROVE  /\ Ids(names, n) \in Seq(CallIds)
         /\ names = <<>> => Ids(names, n) = <<>>
<1>1. Len(names) \in Nat /\ DOMAIN names = 1 .. Len(names)
  OBVIOUS
<1>2. \A i \in 1 .. Len(names) : <<n, i>> \in CallIds
  BY <1>1 DEF CallIds
<1>3. Ids(names, n) \in [1 .. Len(names) -> CallIds]
  BY <1>1, <1>2 DEF Ids
<1>4. Ids(names, n) \in Seq(CallIds)
  BY <1>1, <1>3
<1>5. names = <<>> => Ids(names, n) = <<>>
  BY <1>1, <1>4, EmptySeq, LenProperties DEF Ids
<1> QED
  BY <1>4, <1>5

(* CustomGraphInv holds when the graph is invoked.                          *)
LEMMA GraphStarts == CustomGraphInit => CustomGraphInv
BY DEF CustomGraphInit, CustomGraphInv, CustomGraphTypeOK, LastCallsWait,
       FinishesForAReason, CallsAnswered

(* The model answers, with calls of any tools.                              *)
LEMMA CallModelKeeps ==
  ASSUME CustomGraphInv, NEW k \in 0 .. MaxToolCalls, NEW names \in [1 .. k -> Names],
         CallModel(names)
  PROVE  CustomGraphInv'
<1>1. /\ CustomGraphTypeOK /\ CallsAnswered
      /\ iterationCount < MaxIterations /\ toolMessages = asked
      /\ iterationCount \in Nat
  BY DEF CustomGraphInv, CallsAnswered, CallModel, CustomGraphTypeOK
<1>2. /\ node' = "route" /\ toolCalls' = names
      /\ iterationCount' = iterationCount + 1
      /\ asked' = asked \o Ids(names, iterationCount + 1)
      /\ toolMessages' = toolMessages /\ toolResults' = toolResults
  BY DEF CallModel
<1>3. names \in Seq(Names) /\ Len(names) = k
  OBVIOUS
<1>4. iterationCount + 1 \in 1 .. MaxIterations
  BY <1>1
<1>5. Ids(names, iterationCount + 1) \in Seq(CallIds)
  BY <1>3, <1>4, IdsOfMessage
<1>6. asked' \in Seq(CallIds)
  BY <1>1, <1>2, <1>5, ConcatProperties DEF CustomGraphTypeOK
<1>7. CustomGraphTypeOK'
  BY <1>1, <1>2, <1>3, <1>4, <1>6 DEF CustomGraphTypeOK
<1>8. LastCallsWait'
  BY <1>1, <1>2, <1>3 DEF LastCallsWait
<1>9. FinishesForAReason' /\ CallsAnswered'
  BY <1>1, <1>2, <1>4 DEF FinishesForAReason, CallsAnswered
<1> QED
  BY <1>7, <1>8, <1>9 DEF CustomGraphInv

(* Every step of the graph keeps CustomGraphInv.                            *)
LEMMA GraphStepKeeps == CustomGraphInv /\ [CustomGraphNext]_graphVars => CustomGraphInv'
<1> SUFFICES ASSUME CustomGraphInv, [CustomGraphNext]_graphVars PROVE CustomGraphInv'
  OBVIOUS
<1> USE DEF CustomGraphInv, CustomGraphTypeOK, FinishesForAReason, CallsAnswered
<1>1. CASE \E k \in 0 .. MaxToolCalls : \E names \in [1 .. k -> Names] : CallModel(names)
  BY ONLY <1>1, CallModelKeeps, CustomGraphInv
<1>2. CASE RouteAfterModel
  <2>1. /\ node = "route" /\ toolCalls' = toolCalls /\ asked' = asked
        /\ iterationCount' = iterationCount /\ toolMessages' = toolMessages
        /\ toolResults' = toolResults
        /\ node' = IF iterationCount >= MaxIterations \/ toolCalls = <<>>
                   THEN "force_finish" ELSE "execute_tool"
    BY <1>2 DEF RouteAfterModel
  <2>2. /\ iterationCount \in 1 .. MaxIterations /\ Len(toolCalls) <= MaxToolCalls
        /\ asked = toolMessages \o Ids(toolCalls, iterationCount)
    BY <2>1 DEF LastCallsWait
  <2>3. toolCalls = <<>> => toolMessages = asked
    <3>1. toolCalls = <<>> => Ids(toolCalls, iterationCount) = <<>>
      BY <2>2, IdsOfMessage
    <3>2. toolMessages \o <<>> = toolMessages
      BY ConcatEmptySeq
    <3> QED
      BY <2>2, <3>1, <3>2
  <2>4. CASE iterationCount >= MaxIterations \/ toolCalls = <<>>
    <3>1. node' = "force_finish"
      BY <2>1, <2>4
    <3>2. iterationCount = MaxIterations \/ toolMessages = asked
      BY <2>2, <2>3, <2>4
    <3>3. LastCallsWait'
      BY <3>1 DEF LastCallsWait
    <3> QED
      BY <2>1, <3>1, <3>2, <3>3
  <2>5. CASE iterationCount < MaxIterations /\ toolCalls # <<>>
    <3>1. node' = "execute_tool"
      BY <2>1, <2>2, <2>5
    <3>2. LastCallsWait'
      BY <2>1, <2>2, <2>5 DEF LastCallsWait
    <3> QED
      BY <2>1, <3>1, <3>2
  <2> QED
    BY <2>2, <2>4, <2>5
<1>3. CASE ExecuteTool
  <2>1. /\ iterationCount \in 1 .. MaxIterations /\ iterationCount < MaxIterations
        /\ asked = toolMessages \o Ids(toolCalls, iterationCount)
        /\ toolResults = toolMessages
    BY <1>3 DEF LastCallsWait, ExecuteTool
  <2>2. /\ node' = "call_model" /\ asked' = asked
        /\ iterationCount' = iterationCount /\ toolCalls' = toolCalls
        /\ toolMessages' = asked /\ toolResults' = asked
    BY <1>3, <2>1 DEF ExecuteTool
  <2>3. LastCallsWait'
    BY <2>2 DEF LastCallsWait
  <2> QED
    BY <2>1, <2>2, <2>3
<1>4. CASE NodeRaises
  BY <1>4 DEF NodeRaises, LastCallsWait
<1>5. CASE ForceFinish
  BY <1>5 DEF ForceFinish, LastCallsWait
<1>6. CASE UNCHANGED graphVars
  BY <1>6 DEF graphVars, LastCallsWait
<1> QED
  BY <1>1, <1>2, <1>3, <1>4, <1>5, <1>6 DEF CustomGraphNext

(* The model is asked with all its calls answered, and at most as often as  *)
(* the limit says, for any limit and any calls.                             *)
THEOREM EveryCallAnswered == CustomGraphSpec => []CallsAnswered
<1>1. CustomGraphInv => CallsAnswered
  BY DEF CustomGraphInv
<1> QED
  BY <1>1, GraphStarts, GraphStepKeeps, PTL DEF CustomGraphSpec

-------------------------------------------------------------------------------
(* Answers from the knowledge base.                                         *)

(* A set of bounded numbers has a greatest element, and Max gives it.       *)
LEMMA MaxFound ==
  ASSUME NEW N \in Nat, NEW S \in SUBSET (0 .. N), S # {}
  PROVE  Max(S) \in S /\ \A y \in S : Max(S) >= y
<1> DEFINE below == {N - x : x \in S}
<1>1. below \subseteq Nat /\ below # {}
  <2>1. \A x \in S : N - x \in Nat
    OBVIOUS
  <2> QED
    BY <2>1
<1>2. PICK b \in below : \A m \in below : <<m, b>> \notin OpToRel(<, Nat)
  BY <1>1, NatLessThanWellFounded, WFMin
<1>3. PICK x \in S : b = N - x
  OBVIOUS
<1>4. \A m \in below : ~ (m < b)
  BY <1>1, <1>2 DEF OpToRel
<1>5. ASSUME NEW y \in S PROVE x >= y
  <2>1. N - y \in below /\ x \in 0 .. N /\ y \in 0 .. N
    OBVIOUS
  <2>2. ~ (N - y < N - x)
    BY <1>3, <1>4, <2>1
  <2> QED
    BY <2>1, <2>2
<1>6. \E z \in S : \A y \in S : z >= y
  BY <1>5
<1> QED
  BY <1>6 DEF Max

(* The best score decides: it reaches the threshold when some score does.   *)
LEMMA TopScoreDecides ==
  ASSUME RagTypeOK
  PROVE  /\ nodes # <<>> /\ TopScore >= ScoreThreshold =>
              \E i \in DOMAIN nodes : nodes[i].score >= ScoreThreshold
         /\ nodes = <<>> \/ TopScore < ScoreThreshold =>
              \A i \in DOMAIN nodes : nodes[i].score < ScoreThreshold
<1> DEFINE scores == {0} \cup {nodes[i].score : i \in DOMAIN nodes}
<1>1. \A i \in DOMAIN nodes : nodes[i].score \in 0 .. MaxScore
  <2>1. \A i \in DOMAIN nodes : nodes[i] \in Nodes
    BY ElementOfSeq DEF RagTypeOK
  <2> QED
    BY <2>1 DEF Nodes
<1>2. scores \in SUBSET (0 .. MaxScore) /\ 0 \in scores
  BY <1>1
<1>3. Max(scores) \in scores /\ \A y \in scores : Max(scores) >= y
  BY <1>2, MaxFound
<1>4. Max(scores) \in Nat /\ ScoreThreshold \in Nat
  BY <1>2, <1>3
<1>5. ASSUME nodes # <<>>, TopScore >= ScoreThreshold
      PROVE  \E i \in DOMAIN nodes : nodes[i].score >= ScoreThreshold
  <2>1. Max(scores) >= ScoreThreshold
    BY <1>5 DEF TopScore
  <2>2. CASE \E i \in DOMAIN nodes : Max(scores) = nodes[i].score
    BY <2>1, <2>2
  <2>3. CASE Max(scores) = 0
    <3>1. ScoreThreshold = 0
      BY <1>4, <2>1, <2>3
    <3>2. 1 \in DOMAIN nodes
      BY <1>5 DEF RagTypeOK
    <3>3. nodes[1].score >= 0
      BY <1>1, <3>2
    <3> QED
      BY <3>1, <3>2, <3>3
  <2> QED
    BY <1>3, <2>2, <2>3
<1>6. ASSUME TopScore < ScoreThreshold, NEW i \in DOMAIN nodes
      PROVE  nodes[i].score < ScoreThreshold
  <2>1. Max(scores) < ScoreThreshold
    BY <1>6 DEF TopScore
  <2>2. Max(scores) >= nodes[i].score /\ nodes[i].score \in Nat
    BY <1>1, <1>3
  <2> QED
    BY <1>4, <2>1, <2>2
<1> QED
  BY <1>5, <1>6

(* RagInv holds before the retriever is made.                               *)
LEMMA RagStarts == RagInit => RagInv
<1> SUFFICES ASSUME RagInit PROVE RagInv
  OBVIOUS
<1>1. NoResponse \in [confident : {"yes", "no"}, asked : {"yes", "no"},
                      sources : Seq(Chunks), citations : SUBSET Citation]
  BY DEF NoResponse
<1>2. RagTypeOK
  BY <1>1 DEF RagInit, RagTypeOK
<1> QED
  BY <1>2 DEF RagInit, RagInv, NodesVisible, MadeFromNodes

(* The chunks that are found are visible ones.                              *)
LEMMA RetrieveKeeps ==
  ASSUME RagInv, Retrieve
  PROVE  RagInv'
<1>1. RagTypeOK
  BY DEF RagInv
<1>2. PICK k \in 0 .. RerankTopN : \E found \in [1 .. k -> Nodes] :
        (\A i \in 1 .. k : found[i].chunk \in Visible) /\ nodes' = found
  BY DEF Retrieve
<1>3. nodes' \in Seq(Nodes) /\ DOMAIN nodes' = 1 .. k
  BY <1>2
<1>4. /\ ragStep' = "checking" /\ response' = NoResponse
      /\ internal' = internal /\ restricted' = restricted /\ ragLog' = ragLog
  BY DEF Retrieve
<1>5. NoResponse \in [confident : {"yes", "no"}, asked : {"yes", "no"},
                      sources : Seq(Chunks), citations : SUBSET Citation]
  BY DEF NoResponse
<1>6. RagTypeOK'
  BY <1>1, <1>3, <1>4, <1>5 DEF RagTypeOK
<1>7. NodesVisible'
  BY <1>2, <1>3, <1>4 DEF NodesVisible, Visible
<1>8. MadeFromNodes'
  BY <1>4 DEF MadeFromNodes
<1> QED
  BY <1>6, <1>7, <1>8 DEF RagInv

(* An answer is made from the nodes that were retrieved.                    *)
LEMMA SynthesizeKeeps ==
  ASSUME RagInv, Synthesize
  PROVE  RagInv'
<1>1. RagTypeOK /\ NodesVisible
  BY DEF RagInv
<1>2. PICK markers \in SUBSET Markers :
        response' = [confident |-> "yes", asked |-> "yes", sources |-> BuildSources,
                     citations |-> ParseCitations(markers)]
  BY DEF Synthesize
<1>3. /\ nodes # <<>> /\ TopScore >= ScoreThreshold
      /\ ragStep' = "logging" /\ internal' = internal /\ restricted' = restricted
      /\ nodes' = nodes /\ ragLog' = ragLog
  BY DEF Synthesize
<1>4. BuildSources \in Seq(Chunks) /\ DOMAIN BuildSources = DOMAIN nodes
  <2>1. nodes \in Seq(Nodes)
    BY <1>1 DEF RagTypeOK
  <2>2. Len(nodes) \in Nat /\ DOMAIN nodes = 1 .. Len(nodes)
    BY <2>1
  <2>3. \A i \in 1 .. Len(nodes) : nodes[i].chunk \in Chunks
    <3>1. \A i \in 1 .. Len(nodes) : nodes[i] \in Nodes
      BY <2>1, ElementOfSeq
    <3> QED
      BY <3>1 DEF Nodes
  <2>4. BuildSources \in [1 .. Len(nodes) -> Chunks]
    BY <2>2, <2>3 DEF BuildSources
  <2> QED
    BY <2>2, <2>4
<1>5. ParseCitations(markers) \subseteq Citation
  BY <1>4 DEF ParseCitations, Citation
<1>6. \A c \in ParseCitations(markers) :
        c.file = IF c.marker \in DOMAIN nodes THEN {nodes[c.marker].chunk} ELSE {}
  <2> SUFFICES ASSUME NEW c \in ParseCitations(markers)
               PROVE  c.file = IF c.marker \in DOMAIN nodes
                               THEN {nodes[c.marker].chunk} ELSE {}
    OBVIOUS
  <2>1. PICK n \in markers :
          c = [marker |-> n, file |-> IF n \in DOMAIN BuildSources
                                      THEN {BuildSources[n]} ELSE {}]
    BY DEF ParseCitations
  <2>2. \A i \in DOMAIN nodes : BuildSources[i] = nodes[i].chunk
    BY DEF BuildSources
  <2> QED
    BY <1>4, <2>1, <2>2
<1>7. \E i \in DOMAIN nodes : nodes[i].score >= ScoreThreshold
  BY <1>1, <1>3, TopScoreDecides
<1>8. RagTypeOK'
  BY <1>1, <1>2, <1>3, <1>4, <1>5 DEF RagTypeOK
<1>9. NodesVisible'
  BY <1>1, <1>3 DEF NodesVisible
<1>10. BuildSources' = BuildSources
  BY <1>3 DEF BuildSources
<1>11. /\ response'.confident = "yes" /\ response'.sources = BuildSources'
       /\ response'.citations = ParseCitations(markers)
  BY <1>2, <1>10
<1>12. MadeFromNodes'
  BY <1>3, <1>6, <1>7, <1>11 DEF MadeFromNodes
<1> QED
  BY <1>8, <1>9, <1>12 DEF RagInv

(* Every step of a query keeps RagInv.                                      *)
LEMMA RagStepKeeps == RagInv /\ [RagNext]_ragVars => RagInv'
<1> SUFFICES ASSUME RagInv, [RagNext]_ragVars PROVE RagInv'
  OBVIOUS
<1>1. NoResponse \in [confident : {"yes", "no"}, asked : {"yes", "no"},
                      sources : Seq(Chunks), citations : SUBSET Citation]
  BY DEF NoResponse
<1> USE <1>1 DEF RagInv, RagTypeOK, NodesVisible, MadeFromNodes, BuildSources
<1>2. CASE RagBuild
  BY <1>2 DEF RagBuild
<1>3. CASE Retrieve
  BY ONLY <1>3, RetrieveKeeps, RagInv
<1>4. CASE RetrieveFails
  BY <1>4 DEF RetrieveFails
<1>5. CASE Refuse
  <2>1. \A i \in DOMAIN nodes : nodes[i].score < ScoreThreshold
    BY <1>5, TopScoreDecides DEF Refuse
  <2> QED
    BY <1>5, <2>1 DEF Refuse
<1>6. CASE Synthesize
  BY ONLY <1>6, SynthesizeKeeps, RagInv
<1>7. CASE SynthesisFails
  BY <1>7 DEF SynthesisFails
<1>8. CASE LogRagQuery
  <2>1. ragLog' \in Seq({"yes", "no"})
    BY <1>8 DEF LogRagQuery
  <2>2. /\ ragStep = "logging" /\ ragStep' = "answered" /\ nodes' = nodes
        /\ response' = response /\ restricted' = restricted /\ internal' = internal
    BY <1>8 DEF LogRagQuery
  <2>3. RagTypeOK'
    BY <2>1, <2>2
  <2>4. NodesVisible'
    BY <2>2
  <2>5. MadeFromNodes'
    BY <2>2
  <2> HIDE DEF RagTypeOK, NodesVisible, MadeFromNodes
  <2> QED
    BY <2>3, <2>4, <2>5
<1>9. CASE UNCHANGED ragVars
  BY <1>9 DEF ragVars
<1> QED
  BY <1>2, <1>3, <1>4, <1>5, <1>6, <1>7, <1>8, <1>9 DEF RagNext

(* What goes out is a refusal or an answer from visible chunks, one of them *)
(* close enough, whose citations name the files the model was shown.        *)
THEOREM AnswersAreGrounded == RagSpec => []AnswersGrounded
<1>1. RagInv => AnswersGrounded
  <2> SUFFICES ASSUME RagInv, ragStep = "answered" PROVE AnswersGrounded
    BY DEF AnswersGrounded
  <2>1. CASE /\ response = NoResponse
             /\ \A i \in DOMAIN nodes : nodes[i].score < ScoreThreshold
    BY <2>1 DEF AnswersGrounded, NoResponse
  <2>2. CASE /\ response.confident = "yes" /\ response.sources = BuildSources
             /\ \E i \in DOMAIN nodes : nodes[i].score >= ScoreThreshold
             /\ \A c \in response.citations :
                  c.file = IF c.marker \in DOMAIN nodes
                           THEN {nodes[c.marker].chunk} ELSE {}
    BY <2>2 DEF AnswersGrounded, RagInv, NodesVisible, BuildSources
  <2> QED
    BY <2>1, <2>2 DEF RagInv, MadeFromNodes
<1> QED
  BY <1>1, RagStarts, RagStepKeeps, PTL DEF RagSpec

-------------------------------------------------------------------------------
(* The history cut to a budget.                                             *)

(* A set of numbers has a least element, and Min gives it.                  *)
LEMMA MinFound ==
  ASSUME NEW S \in SUBSET Nat, S # {}
  PROVE  Min(S) \in S /\ \A y \in S : Min(S) =< y
<1>1. PICK x \in S : \A y \in S : <<y, x>> \notin OpToRel(<, Nat)
  BY NatLessThanWellFounded, WFMin
<1>2. \A y \in S : ~ (y < x)
  BY <1>1 DEF OpToRel
<1>3. \E z \in S : \A y \in S : z =< y
  BY <1>2
<1> QED
  BY <1>3 DEF Min

(* Messages have a number of tokens.                                        *)
LEMMA TokensAreCounted ==
  ASSUME history \in Seq(Message), NEW ms \in SUBSET DOMAIN history
  PROVE  CountTokens(ms) \in Nat
<1>1. DOMAIN history = 1 .. Len(history) /\ Len(history) \in Nat
  BY LenProperties
<1>2. IsFiniteSet(ms)
  <2>1. 1 \in Int /\ Len(history) \in Int
    BY <1>1
  <2>2. IsFiniteSet(1 .. Len(history))
    BY <2>1, FS_Interval
  <2> QED
    BY <1>1, <2>2, FS_Subset
<1>3. IsFiniteSet(1 .. MaxTokens)
  <2>1. 1 \in Int /\ MaxTokens \in Int
    OBVIOUS
  <2> QED
    BY <2>1, FS_Interval
<1>4. IsFiniteSet(ms \X (1 .. MaxTokens))
  BY <1>2, <1>3, FS_Product
<1>5. Tokens(ms) \in SUBSET (ms \X (1 .. MaxTokens))
  BY DEF Tokens
<1>6. Cardinality(Tokens(ms)) \in Nat
  BY <1>4, <1>5, FS_Subset, FS_CardinalityType
<1> QED
  BY <1>6 DEF CountTokens

(* What is kept when the oldest are dropped to the first that fits.         *)
LEMMA CutIsEnd ==
  ASSUME history \in Seq(Message), budget \in Nat
  PROVE  LET kept == FitToBudget IN
         /\ Systems \subseteq kept
         /\ \A i, j \in Rest : i < j /\ i \in kept => j \in kept
         /\ CountTokens(kept) <= budget \/ kept = Systems
         /\ CountTokens(Systems) < budget =>
              \A i \in Rest \ kept :
                CountTokens(kept \cup {j \in Rest : j >= i}) > budget
<1> DEFINE From(n) == Systems \cup {i \in Rest : i >= n}
           fits == {n \in 1 .. Len(history) + 1 : CountTokens(From(n)) <= budget}
           kept == FitToBudget
<1>1. /\ DOMAIN history = 1 .. Len(history) /\ Len(history) \in Nat
      /\ Systems \subseteq DOMAIN history /\ Rest = DOMAIN history \ Systems
  BY LenProperties DEF Systems, Rest
<1>2. \A ms \in SUBSET DOMAIN history : CountTokens(ms) \in Nat
  BY TokensAreCounted
<1>3. CountTokens(Systems) \in Nat
  BY <1>1, <1>2
<1>4. CASE CountTokens(DOMAIN history) <= budget
  <2>1. kept = DOMAIN history
    BY <1>4 DEF FitToBudget
  <2> QED
    BY <1>1, <1>4, <2>1
<1>5. CASE ~ (CountTokens(DOMAIN history) <= budget) /\ CountTokens(Systems) >= budget
  <2>1. kept = Systems
    BY <1>5 DEF FitToBudget
  <2>2. ~ (CountTokens(Systems) < budget)
    BY <1>3, <1>5
  <2> QED
    BY <1>1, <2>1, <2>2
<1>6. CASE ~ (CountTokens(DOMAIN history) <= budget) /\ ~ (CountTokens(Systems) >= budget)
  <2>1. kept = From(Min(fits))
    BY <1>6 DEF FitToBudget
  <2>2. fits \in SUBSET Nat /\ fits # {}
    <3>1. From(Len(history) + 1) = Systems
      BY <1>1
    <3>2. Len(history) + 1 \in 1 .. Len(history) + 1
      BY <1>1
    <3>3. CountTokens(Systems) <= budget
      BY <1>3, <1>6
    <3>4. Len(history) + 1 \in fits
      BY <3>1, <3>2, <3>3
    <3>5. 1 .. Len(history) + 1 \subseteq Nat
      BY <1>1
    <3>6. fits \subseteq 1 .. Len(history) + 1
      OBVIOUS
    <3> HIDE DEF fits
    <3> QED
      BY <3>4, <3>5, <3>6
  <2>3. PICK n \in fits : n = Min(fits) /\ \A m \in fits : n <= m
    BY <2>2, MinFound
  <2>4. n \in 1 .. Len(history) + 1 /\ CountTokens(From(n)) <= budget
    BY <2>3
  <2>5. kept = Systems \cup {i \in Rest : i >= n}
    BY <2>1, <2>3
  <2>6. ASSUME NEW i \in Rest \ kept
        PROVE  CountTokens(kept \cup {j \in Rest : j >= i}) > budget
    <3>1. i \in 1 .. Len(history) /\ i < n
      BY <1>1, <2>4, <2>5
    <3>2. kept \cup {j \in Rest : j >= i} = From(i)
      BY <1>1, <2>4, <2>5, <3>1
    <3>3. i \notin fits
      <4> HIDE DEF fits
      <4> QED
        BY <1>1, <2>3, <2>4, <3>1
    <3>4. ~ (CountTokens(From(i)) <= budget)
      BY <1>1, <3>1, <3>3
    <3>5. CountTokens(From(i)) \in Nat
      BY <1>1, <1>2
    <3>6. CountTokens(From(i)) > budget
      BY <3>4, <3>5
    <3> QED
      BY <3>2, <3>6
  <2>7. CountTokens(kept) <= budget
    BY <2>1, <2>3, <2>4
  <2>8. \A i, j \in Rest : i < j /\ i \in kept => j \in kept
    BY <1>1, <2>4, <2>5
  <2> HIDE DEF kept, From, fits
  <2> QED
    BY <2>5, <2>6, <2>7, <2>8 DEF kept
<1> QED
  BY <1>4, <1>5, <1>6

(* A history is cut at its beginning, and no more than it has to be.        *)
THEOREM EndOfHistoryKept == ContextSpec => []EndKept
<1>1. ContextInit => ContextInv
  <2> SUFFICES ASSUME ContextInit PROVE ContextInv
    OBVIOUS
  <2>1. PICK k \in 0 .. MaxHistory : history \in [1 .. k -> Message]
    BY DEF ContextInit, UpTo
  <2>2. history \in Seq(Message)
    BY <2>1, SeqDef
  <2>3. budget \in Nat
    <3>1. MaxTokens * MaxHistory \in Nat
      OBVIOUS
    <3> QED
      BY <3>1 DEF ContextInit
  <2> QED
    BY <2>2, <2>3 DEF ContextInit, ContextInv
<1>2. ContextInv /\ [ContextNext]_contextVars => ContextInv'
  <2> SUFFICES ASSUME ContextInv, [ContextNext]_contextVars PROVE ContextInv'
    OBVIOUS
  <2>1. history' = history /\ budget' = budget
    BY DEF ContextNext, Fit, contextVars
  <2>2. FitToBudget' = FitToBudget
    BY <2>1 DEF FitToBudget, CountTokens, Tokens, Systems, Rest
  <2>3. context' = context \/ context' = FitToBudget
    BY DEF ContextNext, Fit, contextVars
  <2> QED
    BY <2>1, <2>2, <2>3 DEF ContextInv
<1>3. ContextInv => EndKept
  BY CutIsEnd DEF ContextInv, EndKept
<1> QED
  BY <1>1, <1>2, <1>3, PTL DEF ContextSpec

-------------------------------------------------------------------------------
(* The split between prompts.                                               *)

Newer(i) == {j \in ListActive : j > i}

(* The candidates and their percents.                                       *)
LEMMA PromptsAre ==
  ASSUME PromptInv
  PROVE  /\ Len(prompts) \in Nat /\ DOMAIN prompts = 1 .. Len(prompts)
         /\ \A i \in DOMAIN prompts : prompts[i].trafficPct \in 0 .. Buckets
         /\ ListActive \in SUBSET DOMAIN prompts
         /\ \A i \in ListActive : prompts[i].trafficPct > 0
<1>1. prompts \in Seq(Prompt)
  BY DEF PromptInv
<1>2. Len(prompts) \in Nat /\ DOMAIN prompts = 1 .. Len(prompts)
  BY <1>1, LenProperties
<1>3. \A i \in 1 .. Len(prompts) : prompts[i] \in Prompt
  BY <1>1, ElementOfSeq
<1> QED
  BY <1>2, <1>3 DEF Prompt, ListActive

(* Prompts have a number of percents, and the more prompts the more.        *)
LEMMA PercentsAreFinite ==
  ASSUME PromptInv, NEW ps \in SUBSET DOMAIN prompts
  PROVE  IsFiniteSet(Percents(ps)) /\ Percent(ps) \in Nat
<1>1. IsFiniteSet(ps)
  <2>1. 1 \in Int /\ Len(prompts) \in Int /\ DOMAIN prompts = 1 .. Len(prompts)
    BY PromptsAre
  <2>2. IsFiniteSet(1 .. Len(prompts))
    BY <2>1, FS_Interval
  <2> QED
    BY <2>1, <2>2, FS_Subset
<1>2. IsFiniteSet(1 .. Buckets)
  <2>1. 1 \in Int /\ Buckets \in Int
    OBVIOUS
  <2> QED
    BY <2>1, FS_Interval
<1>3. IsFiniteSet(ps \X (1 .. Buckets))
  BY <1>1, <1>2, FS_Product
<1>4. Percents(ps) \in SUBSET (ps \X (1 .. Buckets))
  BY DEF Percents
<1> QED
  BY <1>3, <1>4, FS_Subset, FS_CardinalityType DEF Percent

LEMMA PercentGrows ==
  ASSUME PromptInv, NEW ps \in SUBSET DOMAIN prompts, NEW qs \in SUBSET ps
  PROVE  Percent(qs) <= Percent(ps)
<1>1. Percents(qs) \in SUBSET Percents(ps)
  BY DEF Percents
<1>2. IsFiniteSet(Percents(ps))
  BY PercentsAreFinite
<1> QED
  BY <1>1, <1>2, FS_Subset DEF Percent

(* A prompt has as many percents as it was given.                           *)
LEMMA PercentOfOne ==
  ASSUME PromptInv, NEW i \in DOMAIN prompts
  PROVE  Cardinality(Percents({i})) = prompts[i].trafficPct
<1> DEFINE pct == prompts[i].trafficPct
           D == 1 .. pct
           f == [b \in D |-> <<i, b>>]
<1>1. pct \in Nat /\ pct <= Buckets
  BY PromptsAre
<1>2. IsFiniteSet(D) /\ Cardinality(D) = pct
  <2>1. 1 \in Int /\ pct \in Int
    BY <1>1
  <2>2. IsFiniteSet(D) /\ Cardinality(D) = IF 1 > pct THEN 0 ELSE pct - 1 + 1
    BY <2>1, FS_Interval
  <2> QED
    BY <1>1, <2>2
<1>3. Percents({i}) = {<<i, b>> : b \in D}
  <2>1. \A x \in {i} \X (1 .. Buckets) :
          x[2] <= prompts[x[1]].trafficPct => \E b \in D : x = <<i, b>>
    BY <1>1
  <2>2. \A b \in D : <<i, b>> \in {i} \X (1 .. Buckets)
    BY <1>1
  <2> QED
    BY <2>1, <2>2 DEF Percents
<1>4. f \in Surjection(D, Percents({i}))
  BY <1>3, Fun_IsSurj
<1>5. f \in Injection(D, Percents({i}))
  <2>1. \A a, b \in D : f[a] = f[b] => a = b
    OBVIOUS
  <2>2. f \in [D -> Percents({i})]
    BY <1>3
  <2> QED
    BY <2>1, <2>2, Fun_IsInj
<1> HIDE DEF f, D
<1>6. Cardinality(Percents({i})) = Cardinality(D)
  BY <1>2, <1>4, <1>5, FS_Surjection
<1> QED
  BY <1>2, <1>6

(* One prompt more adds its share.                                          *)
LEMMA PercentAdds ==
  ASSUME PromptInv, NEW ps \in SUBSET DOMAIN prompts,
         NEW i \in DOMAIN prompts, i \notin ps
  PROVE  Percent(ps \cup {i}) = Percent(ps) + prompts[i].trafficPct
<1>1. Percents(ps \cup {i}) = Percents(ps) \cup Percents({i})
  BY DEF Percents
<1>2. Percents(ps) \cap Percents({i}) = {}
  BY DEF Percents
<1>3. IsFiniteSet(Percents(ps)) /\ IsFiniteSet(Percents({i}))
  BY PercentsAreFinite
<1>4. Cardinality(Percents(ps) \cup Percents({i}))
        = Cardinality(Percents(ps)) + Cardinality(Percents({i})) - Cardinality({})
  BY <1>2, <1>3, FS_Union
<1>5. Cardinality(Percents(ps)) \in Nat /\ prompts[i].trafficPct \in Nat
  BY PercentsAreFinite, PromptsAre DEF Percent
<1>6. Cardinality(Percents({i})) = prompts[i].trafficPct
  BY PercentOfOne
<1>7. Cardinality({}) = 0
  BY FS_EmptySet
<1>8. Cardinality(Percents(ps \cup {i}))
        = Cardinality(Percents(ps)) + prompts[i].trafficPct
  <2> DEFINE old == Cardinality(Percents(ps))
             pct == prompts[i].trafficPct
             both == Cardinality(Percents(ps \cup {i}))
  <2>1. both = old + pct - 0 /\ old \in Nat /\ pct \in Nat
    BY <1>1, <1>4, <1>5, <1>6, <1>7
  <2> HIDE DEF old, pct, both
  <2>2. both = old + pct
    BY <2>1
  <2> QED
    BY <2>2 DEF old, pct, both
<1> QED
  BY <1>8 DEF Percent

(* The cumulative share of a candidate begins where that of the newer ends. *)
LEMMA CumulativeIs ==
  ASSUME PromptInv, NEW i \in ListActive
  PROVE  /\ Cumulative(i) = Percent(Newer(i)) + prompts[i].trafficPct
         /\ Cumulative(i) <= Percent(ListActive)
         /\ Cumulative(i) \in Nat /\ Percent(Newer(i)) \in Nat
         /\ \A j \in Newer(i) : Cumulative(j) <= Percent(Newer(i))
<1>1. /\ ListActive \in SUBSET DOMAIN prompts
      /\ \A k \in ListActive : k \in Nat
  BY PromptsAre
<1>2. {j \in ListActive : j >= i} = Newer(i) \cup {i} /\ i \notin Newer(i)
  BY <1>1 DEF Newer
<1>3. Newer(i) \in SUBSET ListActive /\ i \in DOMAIN prompts
  BY <1>1 DEF Newer
<1>4. Percent(Newer(i) \cup {i}) = Percent(Newer(i)) + prompts[i].trafficPct
  BY <1>1, <1>2, <1>3, PercentAdds
<1>5. Percent(Newer(i) \cup {i}) <= Percent(ListActive)
  BY <1>1, <1>3, PercentGrows
<1>6. Percent(Newer(i) \cup {i}) \in Nat /\ Percent(Newer(i)) \in Nat
  BY <1>1, <1>3, PercentsAreFinite
<1>7. ASSUME NEW j \in Newer(i)
      PROVE  Cumulative(j) <= Percent(Newer(i))
  <2>1. {k \in ListActive : k >= j} \in SUBSET Newer(i)
    BY <1>1 DEF Newer
  <2>2. Newer(i) \in SUBSET DOMAIN prompts
    BY <1>1, <1>3
  <2> QED
    BY <2>1, <2>2, PercentGrows DEF Cumulative
<1> QED
  BY <1>2, <1>4, <1>5, <1>6, <1>7 DEF Cumulative

(* The newest candidate, or the newest within.                              *)
LEMMA NewestFound ==
  ASSUME PromptInv, NEW ps \in SUBSET ListActive, ps # {}
  PROVE  Max(ps) \in ps /\ \A j \in ps : Max(ps) >= j
<1>1. Len(prompts) \in Nat /\ ps \in SUBSET (0 .. Len(prompts))
  BY PromptsAre
<1> QED
  BY <1>1, MaxFound

(* Of the candidates but the newest, one is chosen for the buckets of its   *)
(* share only ...                                                           *)
LEMMA ChosenIsWithin ==
  ASSUME PromptInv, NEW i \in ListActive, i # Max(ListActive),
         NEW b \in 0 .. Buckets - 1, ChooseBySplit(b) = i
  PROVE  Percent(Newer(i)) <= b /\ b < Cumulative(i)
<1> DEFINE within == {j \in ListActive : b < Cumulative(j)}
<1>1. within # {} /\ i = Max(within)
  BY DEF ChooseBySplit
<1>2. i \in within /\ \A j \in within : i >= j
  BY <1>1, NewestFound
<1>3. PICK j \in Newer(i) : \A k \in Newer(i) : j <= k
  <2>1. Max(ListActive) \in Newer(i)
    BY NewestFound, PromptsAre DEF Newer
  <2>2. Newer(i) \in SUBSET Nat
    BY PromptsAre DEF Newer
  <2> QED
    BY <2>1, <2>2, MinFound
<1>4. j \in ListActive /\ j > i /\ \A k \in ListActive : k \in Nat
  BY PromptsAre DEF Newer
<1>5. j \notin within
  BY <1>2, <1>4
<1>6. ~ (b < Cumulative(j))
  BY <1>4, <1>5
<1>7. {k \in ListActive : k >= j} = Newer(i)
  BY <1>3, <1>4 DEF Newer
<1>8. Cumulative(j) = Percent(Newer(i)) /\ Percent(Newer(i)) \in Nat
  BY <1>7, CumulativeIs DEF Cumulative
<1> QED
  BY <1>2, <1>6, <1>8

(* ... and each for all of them.                                            *)
LEMMA WithinIsChosen ==
  ASSUME PromptInv, NEW i \in ListActive, NEW b \in Nat,
         Percent(Newer(i)) <= b, b < Cumulative(i)
  PROVE  ChooseBySplit(b) = i
<1> DEFINE within == {j \in ListActive : b < Cumulative(j)}
<1>1. i \in within
  OBVIOUS
<1>2. Max(within) \in within /\ Max(within) >= i
  BY <1>1, NewestFound
<1>3. \A j \in Newer(i) : ~ (b < Cumulative(j))
  <2> SUFFICES ASSUME NEW j \in Newer(i) PROVE ~ (b < Cumulative(j))
    OBVIOUS
  <2>1. j \in ListActive
    BY DEF Newer
  <2>2. Cumulative(j) \in Nat
    BY <2>1, CumulativeIs
  <2> QED
    BY <2>2, CumulativeIs
<1>4. Max(within) = i
  <2>1. Max(within) \notin Newer(i) /\ Max(within) \in ListActive
    BY <1>2, <1>3
  <2>2. \A k \in ListActive : k \in Nat
    BY PromptsAre
  <2> QED
    BY <1>2, <2>1, <2>2 DEF Newer
<1>5. CASE Cardinality(ListActive) = 1
  <2>1. ListActive = {i}
    <3>1. IsFiniteSet(ListActive)
      <4>1. 1 \in Int /\ Len(prompts) \in Int /\ ListActive \in SUBSET (1 .. Len(prompts))
        BY PromptsAre
      <4> QED
        BY <4>1, FS_Interval, FS_Subset
    <3> QED
      BY <1>5, <3>1, FS_Singleton
  <2>2. Max(ListActive) = i
    BY <2>1, NewestFound
  <2> QED
    BY <1>5, <2>2 DEF ChooseBySplit
<1>6. CASE Cardinality(ListActive) # 1
  BY <1>1, <1>4, <1>6 DEF ChooseBySplit
<1> QED
  BY <1>5, <1>6

(* So a candidate's share is as long as its percents.                       *)
LEMMA SharesAreKept == PromptInv => SharesKept
<1> SUFFICES ASSUME PromptInv, NEW i \in DOMAIN prompts
             PROVE  IF i \notin ListActive THEN Share(i) = 0
                    ELSE /\ i # Max(ListActive) => Share(i) <= prompts[i].trafficPct
                         /\ Percent(ListActive) <= Buckets => Share(i) >= prompts[i].trafficPct
  BY DEF SharesKept
<1> DEFINE S == {b \in 0 .. Buckets - 1 : ChooseBySplit(b) = i}
           pct == prompts[i].trafficPct
           I == Percent(Newer(i)) .. Cumulative(i) - 1
<1>1. CASE i \notin ListActive
  <2>1. ASSUME NEW b \in 0 .. Buckets - 1 PROVE ChooseBySplit(b) # i
    <3> DEFINE within == {j \in ListActive : b < Cumulative(j)}
    <3>1. CASE ListActive = {}
      BY <3>1, NoPromptIsNone, PromptsAre DEF ChooseBySplit
    <3>2. CASE ListActive # {}
      <4>1. Max(ListActive) \in ListActive
        BY <3>2, NewestFound
      <4>2. within # {} => Max(within) \in ListActive
        BY NewestFound
      <4>3. ChooseBySplit(b) = Max(ListActive)
              \/ (within # {} /\ ChooseBySplit(b) = Max(within))
        BY <3>2 DEF ChooseBySplit
      <4> QED
        BY <1>1, <4>1, <4>2, <4>3
    <3> QED
      BY <3>1, <3>2
  <2>2. S = {}
    BY <2>1
  <2> QED
    BY <1>1, <2>2, FS_EmptySet DEF Share
<1>2. CASE i \in ListActive
  <2>1. /\ Percent(Newer(i)) \in Nat /\ pct \in Nat /\ pct > 0
        /\ Cumulative(i) = Percent(Newer(i)) + pct
        /\ Cumulative(i) <= Percent(ListActive)
    BY <1>2, CumulativeIs, PromptsAre
  <2>2. IsFiniteSet(I) /\ Cardinality(I) = pct
    <3>1. Percent(Newer(i)) \in Int /\ Cumulative(i) - 1 \in Int
      BY <2>1
    <3>2. IsFiniteSet(I) /\ Cardinality(I) =
            IF Percent(Newer(i)) > Cumulative(i) - 1 THEN 0
            ELSE Cumulative(i) - 1 - Percent(Newer(i)) + 1
      BY <3>1, FS_Interval
    <3> QED
      BY <2>1, <3>2
  <2>3. IsFiniteSet(S)
    <3>1. 0 \in Int /\ Buckets - 1 \in Int /\ S \in SUBSET (0 .. Buckets - 1)
      OBVIOUS
    <3> QED
      BY <3>1, FS_Interval, FS_Subset
  <2>4. ASSUME i # Max(ListActive) PROVE Cardinality(S) <= pct
    <3>1. S \in SUBSET I
      <4> SUFFICES ASSUME NEW b \in S PROVE b \in I
        OBVIOUS
      <4>1. Percent(Newer(i)) <= b /\ b < Cumulative(i)
        BY <1>2, <2>4, ChosenIsWithin
      <4> QED
        BY <2>1, <4>1
    <3> HIDE DEF S, I
    <3> QED
      BY <2>2, <3>1, FS_Subset
  <2>5. ASSUME Percent(ListActive) <= Buckets PROVE Cardinality(S) >= pct
    <3>1. Cumulative(i) <= Buckets
      <4>1. Percent(ListActive) \in Nat
        BY PromptsAre, PercentsAreFinite
      <4> QED
        BY <2>1, <2>5, <4>1
    <3>2. I \in SUBSET S
      <4> SUFFICES ASSUME NEW b \in I PROVE b \in S
        OBVIOUS
      <4>1. b \in Nat /\ Percent(Newer(i)) <= b /\ b < Cumulative(i)
        BY <2>1
      <4>2. ChooseBySplit(b) = i
        BY <1>2, <4>1, WithinIsChosen
      <4>3. b \in 0 .. Buckets - 1
        BY <2>1, <3>1, <4>1
      <4> QED
        BY <4>2, <4>3
    <3>3. Cardinality(S) \in Nat
      BY <2>3, FS_CardinalityType
    <3> HIDE DEF S, I
    <3>4. Cardinality(I) <= Cardinality(S)
      BY <2>3, <3>2, FS_Subset
    <3> QED
      BY <2>1, <2>2, <3>3, <3>4
  <2> QED
    BY <1>2, <2>4, <2>5 DEF Share
<1> QED
  BY <1>1, <1>2

(* Every prompt has its share of the buckets.                               *)
THEOREM SharesAlwaysKept == PromptSpec => []SharesKept
<1>1. PromptInit => PromptInv
  <2> SUFFICES ASSUME PromptInit PROVE prompts \in Seq(Prompt)
    BY DEF PromptInv
  <2>1. PICK k \in 0 .. MaxPrompts : prompts \in [1 .. k -> Prompt]
    BY DEF PromptInit, UpTo
  <2> QED
    BY <2>1, SeqDef
<1>2. PromptInv /\ [PromptNext]_promptVars => PromptInv'
  BY DEF PromptInv, PromptNext, PickPrompt, promptVars
<1> QED
  BY <1>1, <1>2, SharesAreKept, PTL DEF PromptSpec

===============================================================================
