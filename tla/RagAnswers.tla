------------------------------ MODULE RagAnswers ------------------------------
(***************************************************************************)
(* Answers from the knowledge base (src/app/services/rag.py) and their log *)
(* (src/app/routers/rag.py): retrieval under the filter of visibility, a   *)
(* refusal when nothing is close enough, and citations [n] resolved to the *)
(* files of the chunks.                                                    *)
(***************************************************************************)
EXTENDS Naturals, Sequences, FiniteSets, SequencesExt

CONSTANTS
  Chunks,       \* each from a file of its own
  RerankTopN,   \* chunks an answer is made from
  MaxScore, ScoreThreshold,
  MaxQueries    \* bound: rows of the log

ASSUME RagConstants ==
  /\ RerankTopN \in Nat \ {0} /\ MaxQueries \in Nat
  /\ MaxScore \in Nat /\ ScoreThreshold \in 0 .. MaxScore

VARIABLES
  internal,    \* the chunks whose metadata say visibility: internal
  restricted,  \* rag_restrict_to_internal: "yes" or "no"
  ragStep,     \* "unbuilt", or where the query in progress stands
  nodes,       \* what was retrieved
  response,    \* the answer of the query
  ragLog       \* rag_queries: was each answered with confidence?

ragVars == <<internal, restricted, ragStep, nodes, response, ragLog>>

Nodes == [chunk : Chunks, score : 0 .. MaxScore]

(* A marker [n] in the text of the model, and the file it was turned into.  *)
Markers == 0 .. RerankTopN + 1
Citation == [marker : Markers, file : SUBSET Chunks]

NoResponse == [confident |-> "no", asked |-> "no", sources |-> <<>>, citations |-> {}]

RagTypeOK ==
  /\ internal \subseteq Chunks /\ restricted \in {"yes", "no"}
  /\ ragStep \in {"unbuilt", "ready", "checking", "logging", "answered", "failed"}
  /\ nodes \in Seq(Nodes)
  /\ response \in [confident : {"yes", "no"}, asked : {"yes", "no"},
                   sources : Seq(Chunks), citations : SUBSET Citation]
  /\ ragLog \in Seq({"yes", "no"})

RagInit ==
  /\ internal \in SUBSET Chunks /\ restricted \in {"yes", "no"}
  /\ ragStep = "unbuilt" /\ nodes = <<>>
  /\ response = NoResponse /\ ragLog = <<>>

(* The retriever is made once, with its filter.                             *)
RagBuild ==
  /\ ragStep = "unbuilt" /\ ragStep' = "ready"
  /\ UNCHANGED <<internal, restricted, nodes, response, ragLog>>

(* build_filters: what the vector store may give at all.                    *)
Visible == IF restricted = "yes" THEN internal ELSE Chunks

(* The chunks that are found, in the order of the store or the reranker;    *)
(* without a retriever, or when the store fails, the query fails.           *)
Retrieve ==
  /\ ragStep \in {"ready", "answered", "failed"} /\ Len(ragLog) < MaxQueries
  /\ ragStep' = "checking"
  /\ \E k \in 0 .. RerankTopN : \E found \in [1 .. k -> Nodes] :
       /\ \A i, j \in 1 .. k :
            i < j => found[i].chunk # found[j].chunk
       /\ \A i \in 1 .. k : found[i].chunk \in Visible
       /\ nodes' = found
  /\ response' = NoResponse
  /\ UNCHANGED <<internal, restricted, ragLog>>

RetrieveFails ==
  /\ ragStep \in {"unbuilt", "ready", "answered", "failed"}
  /\ ragStep' = IF ragStep = "unbuilt" THEN "unbuilt" ELSE "failed"
  /\ response' = NoResponse
  /\ UNCHANGED <<internal, restricted, nodes, ragLog>>

TopScore == Max({0} \cup {nodes[i].score : i \in DOMAIN nodes})

(* Nothing was found, or nothing close enough: the model is not asked.      *)
Refuse ==
  /\ ragStep = "checking" /\ (nodes = <<>> \/ TopScore < ScoreThreshold)
  /\ ragStep' = "logging" /\ response' = NoResponse
  /\ UNCHANGED <<internal, restricted, nodes, ragLog>>

(* Faulty variant: the sources are numbered from 0.                         *)
BuildSourcesFromZero == [i \in 0 .. Len(nodes) - 1 |-> nodes[i + 1].chunk]

(* Sources are numbered as the chunks of the prompt are.                    *)
BuildSources == [i \in DOMAIN nodes |-> nodes[i].chunk]

(* parse_citations: a marker of a source names its file, others stay.       *)
ParseCitations(markers) ==
  {[marker |-> n, file |-> IF n \in DOMAIN BuildSources THEN {BuildSources[n]} ELSE {}]
     : n \in markers}

Synthesize ==
  /\ ragStep = "checking" /\ nodes # <<>> /\ TopScore >= ScoreThreshold
  /\ ragStep' = "logging"
  /\ \E markers \in SUBSET Markers :
       response' = [confident |-> "yes", asked |-> "yes", sources |-> BuildSources,
                    citations |-> ParseCitations(markers)]
  /\ UNCHANGED <<internal, restricted, nodes, ragLog>>

SynthesisFails ==
  /\ ragStep = "checking" /\ nodes # <<>> /\ TopScore >= ScoreThreshold
  /\ ragStep' = "failed" /\ response' = NoResponse
  /\ UNCHANGED <<internal, restricted, nodes, ragLog>>

(* A row of the log, or none: the answer goes out either way.               *)
LogRagQuery ==
  /\ ragStep = "logging" /\ ragStep' = "answered"
  /\ ragLog' = ragLog \/ ragLog' = Append(ragLog, response.confident)
  /\ UNCHANGED <<internal, restricted, nodes, response>>

RagNext ==
  \/ RagBuild \/ Retrieve \/ RetrieveFails
  \/ Refuse \/ Synthesize \/ SynthesisFails \/ LogRagQuery

RagSpec == RagInit /\ [][RagNext]_ragVars

-------------------------------------------------------------------------------
(* An answer that goes out is either a refusal, without sources and without *)
(* asking the model, or is made from chunks the reader may see, one of them *)
(* close enough, and every citation that names a file names the file of the *)
(* chunk the model was shown under that number.                             *)
AnswersGrounded ==
  ragStep = "answered" =>
    \/ /\ response.confident = "no" /\ response.asked = "no"
       /\ response.sources = <<>>
       /\ \A i \in DOMAIN nodes : nodes[i].score < ScoreThreshold
    \/ /\ response.confident = "yes"
       /\ restricted = "yes" =>
            \A i \in DOMAIN response.sources : response.sources[i] \in internal
       /\ \E i \in DOMAIN nodes : nodes[i].score >= ScoreThreshold
       /\ \A c \in response.citations :
            c.file = IF c.marker \in DOMAIN nodes THEN {nodes[c.marker].chunk} ELSE {}

-------------------------------------------------------------------------------
(* The inductive invariant.                                                 *)

(* What was retrieved is what the reader may see.                           *)
NodesVisible ==
  restricted = "yes" => \A i \in DOMAIN nodes : nodes[i].chunk \in internal

(* An answer that waits for its row of the log is made from the nodes.      *)
MadeFromNodes ==
  ragStep \in {"logging", "answered"} =>
    \/ /\ response = NoResponse
       /\ \A i \in DOMAIN nodes : nodes[i].score < ScoreThreshold
    \/ /\ response.confident = "yes" /\ response.sources = BuildSources
       /\ \E i \in DOMAIN nodes : nodes[i].score >= ScoreThreshold
       /\ \A c \in response.citations :
            c.file = IF c.marker \in DOMAIN nodes THEN {nodes[c.marker].chunk} ELSE {}

RagInv == RagTypeOK /\ NodesVisible /\ MadeFromNodes
===============================================================================
