------------------------------ MODULE Ingestion -------------------------------
(***************************************************************************)
(* The index of the knowledge base: IngestionService (src/app/services/    *)
(* ingestion.py), the routes that queue its work (src/app/routers/         *)
(* documents.py), its start by the lifespan (src/app/main.py) and the      *)
(* indexing RAGService.build falls back to (src/app/services/rag.py).      *)
(*                                                                         *)
(* Background tasks run in threads and overlap.  The docstore remembers    *)
(* the hash of every document indexed; it lives in memory, belongs to the  *)
(* pipeline it was given to, and is saved to a file after a run.  The      *)
(* vectors are in Qdrant, which survives the process; its adapter in       *)
(* llama_index, an external library, remembers whether the collection       *)
(* exists.                                                                  *)
(***************************************************************************)
EXTENDS Naturals, FiniteSets

CONSTANTS
  Files, Tasks,
  Boot,       \* the task of the lifespan: the primary indexing
  MaxText,    \* contents a file can have
  MaxDay, MaxStops, \* bounds: the last day, how often the process stops
  Kinds,      \* of "upload", "files", "all" and "full", the tasks queued
  NoHash, None, Torn

ASSUME IngestionConstants ==
  /\ Boot \notin Tasks
  /\ MaxText \in Nat \ {0} /\ MaxDay \in Nat \ {0} /\ MaxStops \in Nat
  /\ Kinds \subseteq {"upload", "files", "all", "full"}

VARIABLES
  disk,        \* file -> its content, 0 when it is not in the corpus
  quarantined, \* file -> the content of its ".failed" copy, 0 for none
  day,
  collection,  \* "missing" or "exists"
  copies,      \* file -> hash -> copies of its vectors in the collection
  raw,         \* files indexed by RAGService.build, without metadata
  stores,      \* the docstores in memory: each maps files to hashes
  docstore,    \* IngestionService._docstore, or None without a service
  pipeline,    \* the docstore that IngestionService._pipeline holds
  initialized, \* what IngestionService._vector_store believes: that there is
               \* a collection
  saved,       \* the docstore's file: a map, None or Torn
  process,     \* "down", "indexing", "building" or "up"
  rag,         \* app.state.rag_service: "none" or "ready"
  task,
  stops,
  history,     \* history: which of the faults below have occurred
  alone        \* history: the task that had everything to itself since it
               \* began and after which nothing was done, or None

vars == <<disk, quarantined, day, collection, copies, raw, stores, docstore,
          pipeline, initialized, saved, process, rag, task, stops, history,
          alone>>

Actors == Tasks \cup {Boot}
Text == 1 .. MaxText

(* A document's hash covers its text and its metadata, one of which is the  *)
(* day it was read on.                                                      *)
Hash == [text : Text, day : 1 .. MaxDay]
Docstore == [Files -> Hash \cup {NoHash}]
EmptyDocstore == [f \in Files |-> NoHash]
NoCopies == [h \in Hash |-> 0]

ASSUME IngestionMarkers ==
  /\ NoHash \notin Hash /\ None \notin Actors
  /\ None # Torn /\ None \notin Docstore /\ Torn \notin Docstore

Idle ==
  [kind |-> "all", files |-> {}, phase |-> "new", docs |-> EmptyDocstore,
   todo |-> {}, batch |-> {}, store |-> None]

Running(t) == task[t].phase \notin {"new", "queued", "done", "failed", "lost"}
Underway(t) == Running(t) \/ task[t].phase = "queued"
Quiet == \A t \in Actors : ~ Running(t)
Overlapping(t) == \E u \in Actors \ {t} : Running(u)
Note(e, occurred) == history' = IF occurred THEN history \cup {e} ELSE history

Init ==
  /\ disk \in [Files -> 0 .. 1] /\ quarantined = [f \in Files |-> 0]
  /\ day = 1 /\ stops = 0 /\ history = {} /\ alone = None
  /\ collection = "missing" /\ copies = [f \in Files |-> NoCopies] /\ raw = {}
  /\ stores = [t \in Actors |-> EmptyDocstore]
  /\ docstore = None /\ pipeline = None /\ saved = None /\ initialized = FALSE
  /\ process = "down" /\ rag = "none"
  /\ task = [t \in Actors |-> Idle]

Corpus == {f \in Files : disk[f] # 0}
Searchable(f, h) == copies[f][h] > 0
CollectionEmpty == raw = {} /\ \A f \in Files : copies[f] = NoCopies

Enter(t, phase) == task' = [task EXCEPT ![t].phase = phase]

service == <<stores, docstore, pipeline, saved>>
vectors == <<collection, copies, raw, initialized>>
corpus == <<disk, quarantined>>
boot == <<day, process, rag, stops>>

-------------------------------------------------------------------------------
(* The lifespan: a service over what is saved; without a collection, or     *)
(* with an empty one, the whole corpus is indexed first.                    *)
Start ==
  /\ process = "down" /\ saved # Torn
  /\ stores' = [stores EXCEPT
                  ![Boot] = IF saved = None THEN EmptyDocstore ELSE saved]
  /\ docstore' = Boot /\ pipeline' = Boot
  /\ initialized' = (collection = "exists")
  /\ IF CollectionEmpty
     THEN /\ task' = [task EXCEPT ![Boot] = [Idle EXCEPT !.phase = "queued"]]
          /\ process' = "indexing"
     ELSE process' = "building" /\ UNCHANGED task
  /\ UNCHANGED <<corpus, collection, copies, raw, saved, day, rag, stops, history,
                 alone>>

(* A docstore file cut short cannot be loaded: neither service is made.     *)
StartWithoutService ==
  /\ process = "down" /\ saved = Torn
  /\ process' = "up"
  /\ UNCHANGED <<corpus, vectors, service, day, rag, stops, task, history, alone>>

(* RAGService.build: a collection with points is used as it is; otherwise   *)
(* every file, quarantined ones too, is indexed without the metadata and    *)
(* under a fresh document id.                                               *)
Build ==
  /\ process = "building"
  /\ IF CollectionEmpty
     THEN /\ \E f \in Files : disk[f] # 0 \/ quarantined[f] # 0
          /\ raw' = {f \in Files : disk[f] # 0 \/ quarantined[f] # 0}
          /\ collection' = "exists"
     ELSE UNCHANGED <<collection, raw>>
  /\ process' = "up" /\ rag' = "ready"
  /\ UNCHANGED <<corpus, copies, initialized, service, day, stops, task, history, alone>>

BuildFails ==
  /\ process = "building"
  /\ process' = "up"
  /\ UNCHANGED <<corpus, vectors, service, day, rag, stops, task, history, alone>>

-------------------------------------------------------------------------------
(* POST /documents/upload writes the file and queues run_for_file.          *)
UploadDocument(t, f, x) ==
  /\ "upload" \in Kinds
  /\ process = "up" /\ docstore # None
  /\ task[t].phase = "new"
  /\ disk' = [disk EXCEPT ![f] = x]
  /\ task' = [task EXCEPT ![t] = [Idle EXCEPT !.kind = "upload", !.files = {f},
                                              !.phase = "queued"]]
  /\ Note("overlap", ~ Quiet) /\ alone' = None
  /\ UNCHANGED <<quarantined, vectors, service, boot>>

(* POST /documents/reindex.                                                 *)
Reindex(t, kind, files) ==
  /\ process = "up" /\ docstore # None
  /\ task[t].phase = "new"
  /\ kind \in Kinds \ {"upload"}
  /\ files = {} <=> kind # "files"
  /\ task' = [task EXCEPT ![t] = [Idle EXCEPT !.kind = kind, !.files = files,
                                              !.phase = "queued"]]
  /\ Note("full", kind = "full")
  /\ UNCHANGED <<corpus, vectors, service, boot, alone>>

(* reindex_all deletes the collection, which the vector store is not told,  *)
DeleteCollection(t) ==
  /\ task[t].phase = "queued" /\ task[t].kind = "full"
  /\ collection' = "missing" /\ raw' = {}
  /\ copies' = [f \in Files |-> NoCopies]
  /\ Enter(t, "forget")
  /\ Note("overlap", Overlapping(t))
  /\ alone' = IF Overlapping(t) THEN None ELSE t
  /\ UNCHANGED <<corpus, initialized, service, boot>>

(* Faulty variant: the hashes are kept.                                     *)
KeepDocstore(t) ==
  /\ task[t].phase = "forget"
  /\ Enter(t, "rebuild")
  /\ UNCHANGED <<corpus, vectors, service, boot, history, alone>>

(* takes a new docstore and removes the file of the old one,                *)
ForgetDocstore(t) ==
  /\ task[t].phase = "forget"
  /\ stores' = [stores EXCEPT ![t] = EmptyDocstore]
  /\ docstore' = t
  /\ saved' = None
  /\ Enter(t, "rebuild")
  /\ UNCHANGED <<corpus, vectors, pipeline, boot, history, alone>>

(* builds a new pipeline over it and the same vector store, and goes on as  *)
(* ingest_all.                                                              *)
BuildPipeline(t) ==
  /\ task[t].phase = "rebuild"
  /\ pipeline' = docstore
  /\ Enter(t, "start")
  /\ UNCHANGED <<corpus, vectors, stores, docstore, saved, boot, history, alone>>

-------------------------------------------------------------------------------
Asked(t) == IF task[t].files = {} THEN Corpus ELSE task[t].files \cap Corpus

(* The documents are read: every file of the corpus, or those of the        *)
(* request that exist.  Without any, ingest_files returns at once and       *)
(* ingest_all raises.                                                       *)
Read(t) ==
  /\ \/ task[t].phase = "start"
     \/ task[t].phase = "queued" /\ task[t].kind # "full"
  /\ IF Asked(t) = {}
     THEN Enter(t, IF task[t].files = {} THEN "failed" ELSE "done")
     ELSE task' = [task EXCEPT ![t].phase = "read",
            ![t].docs = [f \in Files |->
              IF f \in Asked(t) THEN [text |-> disk[f], day |-> day] ELSE NoHash]]
  /\ Note("overlap", Overlapping(t))
  /\ alone' = IF Overlapping(t) THEN None
              ELSE IF task[t].kind = "full" THEN alone ELSE t
  /\ UNCHANGED <<corpus, vectors, service, boot>>

RunPipeline(t) ==
  /\ task[t].phase = "read"
  /\ task' = [task EXCEPT ![t].phase = "upsert", ![t].store = pipeline,
                          ![t].todo = {f \in Files : task[t].docs[f] # NoHash}]
  /\ UNCHANGED <<corpus, vectors, service, boot, history, alone>>

Changed(t, f) == stores[task[t].store][f] \notin {NoHash, task[t].docs[f]}

(* A document goes on, or is skipped when the docstore knows its hash.      *)
Decide(t, f, skipped) ==
  /\ task[t].phase = "upsert"
  /\ f \in task[t].todo
  /\ task' = [task EXCEPT ![t].todo = @ \ {f},
                          ![t].batch = IF skipped THEN @ ELSE @ \cup {f}]
  /\ UNCHANGED <<corpus, collection, raw, initialized, service, boot, history, alone>>

Same(t, f) == stores[task[t].store][f] = task[t].docs[f]

(* Faulty variant: the vectors of a changed document stay.                  *)
UpsertKeepsVectors(t, f) == Decide(t, f, Same(t, f)) /\ UNCHANGED copies

(* Faulty variant: a document known under any hash is skipped.              *)
UpsertByName(t, f) ==
  Decide(t, f, stores[task[t].store][f] # NoHash) /\ UNCHANGED copies

(* Faulty variant: a changed document is removed and not indexed again.     *)
UpsertOnlyUnknown(t, f) ==
  /\ Decide(t, f, stores[task[t].store][f] # NoHash)
  /\ copies' = IF Changed(t, f) THEN [copies EXCEPT ![f] = NoCopies] ELSE copies

(* UPSERTS: a document with another hash than the docstore's loses its      *)
(* vectors; it and every unknown one go on.  The docstore forgets nothing:  *)
(* its delete_ref_doc finds no nodes under a document and returns.          *)
Upsert(t, f) ==
  /\ Decide(t, f, Same(t, f))
  /\ Changed(t, f) => collection = "exists"
  /\ copies' = IF Changed(t, f) THEN [copies EXCEPT ![f] = NoCopies] ELSE copies

(* The vector store adds a part of the batch; it creates the collection     *)
(* only when it believes there is none.                                     *)
Accepts == ~ initialized \/ collection = "exists"

Add(t, part, reached) ==
  /\ copies' = [f \in Files |->
       IF f \in part THEN [copies[f] EXCEPT ![task[t].docs[f]] = @ + 1] ELSE copies[f]]
  /\ collection' = IF reached THEN "exists" ELSE collection
  /\ initialized' = (initialized \/ reached)

(* Embeddings are asked for and the vectors added.                          *)
AddVectors(t) ==
  /\ task[t].phase = "upsert" /\ task[t].todo = {}
  /\ task[t].batch # {} => Accepts
  /\ Add(t, task[t].batch, task[t].batch # {})
  /\ Enter(t, "added")
  /\ UNCHANGED <<corpus, raw, service, boot, history, alone>>

(* The hashes are remembered by the docstore of the pipeline that ran.      *)
RecordHashes(t) ==
  /\ task[t].phase = "added"
  /\ stores' = [stores EXCEPT ![task[t].store] =
       [f \in Files |-> IF f \in task[t].batch THEN task[t].docs[f] ELSE @[f]]]
  /\ Enter(t, "recorded")
  /\ UNCHANGED <<corpus, vectors, docstore, pipeline, saved, boot, history, alone>>

(* _persist_docstore opens the file and writes the service's docstore.      *)
OpenDocstoreFile(t) ==
  /\ task[t].phase = "recorded"
  /\ saved' = Torn
  /\ Enter(t, "saving")
  /\ UNCHANGED <<corpus, vectors, stores, docstore, pipeline, boot, history, alone>>

PersistDocstore(t) ==
  /\ task[t].phase = "saving"
  /\ saved' = stores[docstore]
  /\ Enter(t, "done")
  /\ UNCHANGED <<corpus, vectors, stores, docstore, pipeline, boot, history, alone>>

(* What a task that fails leaves: run_for_file puts its file aside under    *)
(* another name.                                                            *)
Fails(t) ==
  LET aside == IF task[t].kind = "upload" THEN task[t].files \cap Corpus ELSE {}
  IN /\ Enter(t, "failed")
     /\ disk' = [f \in Files |-> IF f \in aside THEN 0 ELSE disk[f]]
     /\ quarantined' = [f \in Files |-> IF f \in aside THEN disk[f] ELSE quarantined[f]]
     /\ UNCHANGED <<raw, service, boot, alone>>

(* Qdrant or the embedding service fails; of the vectors that are added in  *)
(* several requests some may be there.                                      *)
TaskFails(t) ==
  /\ \/ task[t].phase = "queued" /\ task[t].kind = "full"
     \/ task[t].phase = "upsert"
  /\ \E part \in SUBSET task[t].batch, reached \in BOOLEAN :
       /\ part # {} => reached
       /\ reached => task[t].todo = {} /\ task[t].batch # {} /\ Accepts
       /\ Add(t, part, reached)
  /\ Fails(t) /\ Note("failure", TRUE)

(* Without a collection nothing can be removed from it or, for a vector     *)
(* store that believes there is one, added to it.                           *)
CollectionGone(t) ==
  /\ task[t].phase = "upsert" /\ collection = "missing"
  /\ \/ \E f \in task[t].todo : Changed(t, f)
     \/ task[t].todo = {} /\ task[t].batch # {} /\ ~ Accepts
  /\ Fails(t)
  /\ UNCHANGED <<collection, copies, initialized, history>>

(* After the primary indexing the lifespan builds the RAG service; when it  *)
(* failed the service for ingestion stays and the other is not made.        *)
BootIndexed ==
  /\ process = "indexing" /\ task[Boot].phase \in {"done", "failed"}
  /\ process' = IF task[Boot].phase = "done" THEN "building" ELSE "up"
  /\ UNCHANGED <<corpus, vectors, service, day, rag, stops, task, history, alone>>

(* The process stops: tasks and what is in memory are gone.  With nothing   *)
(* queued or running and everything saved, nothing is lost.                 *)
AllSaved ==
  \/ docstore = None
  \/ saved = stores[docstore]
  \/ saved = None /\ stores[docstore] = EmptyDocstore

Stop ==
  /\ process # "down" /\ stops < MaxStops
  /\ stops' = stops + 1
  /\ process' = "down" /\ rag' = "none"
  /\ task' = [t \in Actors |->
       IF t # Boot /\ task[t].phase \in {"new", "done", "failed"} THEN task[t]
       ELSE [Idle EXCEPT !.phase = "lost"]]
  /\ stores' = [t \in Actors |-> EmptyDocstore]
  /\ docstore' = None /\ pipeline' = None /\ initialized' = FALSE
  /\ Note("lost", (\E t \in Actors : Underway(t)) \/ ~ AllSaved)
  /\ alone' = None
  /\ UNCHANGED <<corpus, collection, copies, raw, saved, day>>

NextDay ==
  /\ day < MaxDay
  /\ day' = day + 1
  /\ UNCHANGED <<corpus, vectors, service, process, rag, stops, task, history, alone>>

Work(t) ==
  \/ DeleteCollection(t) \/ ForgetDocstore(t) \/ BuildPipeline(t)
  \/ Read(t) \/ RunPipeline(t) \/ (\E f \in Files : Upsert(t, f))
  \/ AddVectors(t) \/ RecordHashes(t) \/ OpenDocstoreFile(t)
  \/ PersistDocstore(t) \/ TaskFails(t) \/ CollectionGone(t)

Next ==
  \/ Start \/ StartWithoutService \/ BootIndexed \/ Build \/ BuildFails
  \/ \E t \in Tasks :
       \/ \E f \in Files, x \in Text : UploadDocument(t, f, x)
       \/ \E kind \in {"files", "all", "full"}, files \in SUBSET Files :
            Reindex(t, kind, files)
  \/ \E t \in Actors : Work(t)
  \/ Stop \/ NextDay

Spec == Init /\ [][Next]_vars

-------------------------------------------------------------------------------
Phases ==
  {"new", "queued", "forget", "rebuild", "start", "read", "upsert", "added",
   "recorded", "saving", "done", "failed", "lost"}

Job ==
  [kind : {"upload", "files", "all", "full"}, files : SUBSET Files,
   phase : Phases, docs : Docstore, todo : SUBSET Files, batch : SUBSET Files,
   store : Actors \cup {None}]

TypeOK ==
  /\ disk \in [Files -> 0 .. MaxText] /\ quarantined \in [Files -> 0 .. MaxText]
  /\ day \in 1 .. MaxDay
  /\ collection \in {"missing", "exists"} /\ raw \subseteq Files
  /\ initialized \in BOOLEAN
  /\ copies \in [Files -> [Hash -> Nat]]
  /\ stores \in [Actors -> Docstore]
  /\ saved \in Docstore \cup {None, Torn}
  /\ docstore \in Actors \cup {None} /\ pipeline \in Actors \cup {None}
  /\ process \in {"down", "indexing", "building", "up"}
  /\ task \in [Actors -> Job]
  /\ alone \in Actors \cup {None}

OneCopy(h) == [g \in Hash |-> IF g = h THEN 1 ELSE 0]
Mirrors(f, h) == copies[f] = IF h = NoHash THEN NoCopies ELSE OneCopy(h)

(* Work that never overlaps, is never cut off and never fails from outside  *)
(* keeps both stores in step: every document has exactly one copy of the    *)
(* version the docstore knows, and none when it knows nothing.              *)
Clean == history \cap {"overlap", "lost", "failure"} = {}

MirrorsDocstore ==
  Quiet /\ docstore # None /\ Clean
  => \A f \in Files : Mirrors(f, stores[docstore][f])

(* A document is skipped as unchanged only when this very version of it can *)
(* be found.  So the code has it, but a failure is enough to break it.      *)
Skipped(t, f) ==
  /\ f \in task[t].todo /\ task[t].phase = "upsert" /\ task'[t].phase = "upsert"
  /\ f \notin task'[t].todo \cup task'[t].batch

SkipsOnlyIndexed ==
  \A t \in Actors, f \in Files : Skipped(t, f) => Searchable(f, task[t].docs[f])

SkippedIsIndexed == [][history \subseteq {"failure"} => SkipsOnlyIndexed]_vars

(* It holds as long as nothing overlapped, nothing was lost and nothing     *)
(* failed.                                                                  *)
SkippedIsIndexedAlone == [][Clean => SkipsOnlyIndexed]_vars

(* Uploads and incremental runs that overlap, between restarts or across    *)
(* them, may leave an old version or several copies, but never a file of    *)
(* the corpus without vectors.                                              *)
Found(f) == \E h \in Hash : Searchable(f, h)

NothingVanishes ==
  /\ process = "up" /\ docstore # None
  /\ \A t \in Actors : ~ Underway(t)
  /\ history \subseteq {"overlap"}
  => \A f \in Corpus : Found(f)

(* A full reindexing with nothing beside it and no failure from outside     *)
(* ends with the whole corpus indexed: what the route promises for "full".  *)
FullIsRebuilt ==
  \A t \in Tasks :
    /\ alone = t /\ task[t].kind = "full" /\ task[t].phase \in {"done", "failed"}
    /\ "failure" \notin history
    => \A f \in Corpus : Found(f)

(* What does hold of it, whatever was wrong before: done, it leaves exactly *)
(* the corpus, one copy of each file as it is and nothing else, and the     *)
(* docstore saved; refused by its own vector store, it leaves nothing at    *)
(* all, neither vectors nor hashes, so that the next start indexes every    *)
(* file again.  The primary indexing leaves exactly the corpus, too, when   *)
(* it skips nothing.                                                        *)
Documents(t) == {f \in Files : task[t].docs[f] # NoHash}

ExactlyCorpus(t) ==
  /\ \A f \in Files : Mirrors(f, task[t].docs[f])
  /\ raw = {} /\ Documents(t) = Corpus
  /\ \A f \in Corpus : task[t].docs[f].text = disk[f] /\ saved # None
                       /\ saved[f] = task[t].docs[f]

NothingLeft ==
  /\ CollectionEmpty /\ saved = None
  /\ stores[docstore] = EmptyDocstore

AllOrNothing ==
  \A t \in Actors :
    alone = t /\ (t = Boot \/ task[t].kind = "full") =>
      /\ task[t].phase = "done" /\ (t = Boot => task[t].batch = Documents(t))
         => ExactlyCorpus(t)
      /\ task[t].phase = "failed" /\ task[t].kind = "full" /\ "failure" \notin history
         => NothingLeft

-------------------------------------------------------------------------------
(* The inductive invariants.                                                *)

(* Tasks exist only in a process with a service, others than the lifespan's *)
(* only while it serves; what a task goes through is part of its request.   *)
Served ==
  /\ docstore = None <=> pipeline = None
  /\ process = "down" => docstore = None /\ alone = None
  /\ task[Boot].kind = "all" /\ task[Boot].files = {}
  /\ \A t \in Actors :
       /\ Underway(t) => docstore # None /\ (t # Boot => process = "up")
       /\ task[t].phase \in {"forget", "rebuild", "start"} => task[t].kind = "full"
       /\ task[t].phase \in {"queued", "forget", "rebuild", "start", "read"} =>
            task[t].batch = {}
       /\ task[t].phase \in {"upsert", "added"} =>
            /\ task[t].store # None
            /\ \A f \in task[t].todo \cup task[t].batch : task[t].docs[f] # NoHash

(* A collection that is missing holds nothing.                              *)
CollectionHolds == collection = "missing" => CollectionEmpty

(* One at a time, with nothing lost and no failure, both stores are in step *)
(* but between the deletion of the collection and the forgetting of the     *)
(* hashes, and between the first removal of vectors and the recording of    *)
(* the new hashes.                                                          *)
Known(f) == IF saved = None THEN NoHash ELSE saved[f]

OneAtATime == \A t, u \in Actors : Running(t) /\ Running(u) => t = u

SavedMirrors ==
  process = "down" => saved # Torn /\ \A f \in Files : Mirrors(f, Known(f))

ServiceMirrors ==
  process # "down" =>
    /\ docstore # None
    /\ (\A t \in Actors : task[t].phase # "rebuild") => pipeline = docstore
    /\ (\A t \in Actors : task[t].phase \notin {"forget", "upsert", "added"}) =>
         \A f \in Files : Mirrors(f, stores[docstore][f])

Indexed(t, f) ==
  IF f \notin task[t].batch THEN stores[docstore][f]
  ELSE IF task[t].phase = "added" THEN task[t].docs[f]
  ELSE NoHash

WorkMirrors ==
  \A t \in Actors :
    /\ task[t].phase = "forget" => \A f \in Files : copies[f] = NoCopies
    /\ task[t].phase \in {"upsert", "added"} =>
         /\ task[t].store = docstore
         /\ \A f \in Files : Mirrors(f, Indexed(t, f))
    /\ task[t].phase = "upsert" /\ collection = "missing" =>
         \A f \in task[t].batch : stores[docstore][f] = NoHash

InStep == Clean => OneAtATime /\ SavedMirrors /\ ServiceMirrors /\ WorkMirrors

(* Without failures and full reindexing there is one docstore, a file with  *)
(* vectors keeps some or gets new ones from the batch that removed them,    *)
(* and a hash is only known of a file that has.                             *)
Covered(f) ==
  \/ Found(f)
  \/ \E t \in Actors : task[t].phase = "upsert" /\ f \in task[t].batch

Expected(f) ==
  \E t \in Actors :
    \/ task[t].phase = "queued" /\ f \in Asked(t)
    \/ task[t].phase = "read" /\ task[t].docs[f] # NoHash
    \/ task[t].phase = "upsert" /\ f \in task[t].todo

Regular == history \subseteq {"overlap"}

OneDocstore ==
  /\ docstore = IF process = "down" THEN None ELSE Boot
  /\ pipeline = docstore
  /\ process = "down" => task[Boot].phase \in {"new", "lost"}
  /\ \A t \in Actors :
       /\ task[t].kind # "full"
       /\ task[t].phase \in {"upsert", "added"} => task[t].store = Boot

HashesCovered ==
  /\ \A f \in Files : stores[Boot][f] # NoHash => Covered(f)
  /\ \A t \in Actors :
       task[t].phase = "added" => \A f \in task[t].batch : Covered(f)

CollectionCovered ==
  collection = "missing" =>
    /\ ~ initialized
    /\ \A f \in Files : stores[Boot][f] = NoHash
    /\ \A t \in Actors : task[t].phase = "added" => task[t].batch = {}

SavedCovered ==
  /\ saved = Torn => \E t \in Actors : task[t].phase = "saving"
  /\ process = "down" /\ saved # None =>
       \A f \in Files : saved[f] # NoHash => Found(f)

CorpusCovered ==
  IF process = "down" THEN CollectionEmpty \/ \A f \in Corpus : Found(f)
  ELSE \A f \in Corpus : Covered(f) \/ Expected(f)

KeepsFiles ==
  Regular => OneDocstore /\ HashesCovered /\ CollectionCovered /\ SavedCovered
             /\ CorpusCovered

(* What an indexing from nothing has done at each of its steps while it is  *)
(* alone: a full reindexing, or the lifespan's as long as it skips nothing. *)
Snapshot(t) ==
  Corpus # {} /\ \A f \in Files :
    IF f \in Corpus THEN task[t].docs[f] # NoHash /\ task[t].docs[f].text = disk[f]
    ELSE task[t].docs[f] = NoHash

At(t, phases) == task[t].phase \in phases

FromNothing(t) ==
  /\ At(t, {"upsert"}) => task[t].todo \cup task[t].batch = Documents(t)
  /\ At(t, {"added", "recorded", "saving", "done"}) => task[t].batch = Documents(t)

FreshRun(t) ==
  /\ FromNothing(t) => raw = {}
  /\ At(t, {"forget", "rebuild", "start", "read", "upsert"}) =>
       \A f \in Files : copies[f] = NoCopies
  /\ At(t, {"read", "upsert", "added", "recorded", "saving", "done"}) => Snapshot(t)
  /\ At(t, {"read"}) => pipeline = docstore
  /\ At(t, {"upsert", "added"}) => task[t].store = docstore
  /\ At(t, {"added", "recorded", "saving", "done"}) /\ FromNothing(t) =>
       \A f \in Files : Mirrors(f, task[t].docs[f])
  /\ At(t, {"recorded", "saving"}) /\ FromNothing(t) =>
       \A f \in Corpus : stores[docstore][f] = task[t].docs[f]
  /\ At(t, {"done"}) /\ FromNothing(t) =>
       saved # None /\ \A f \in Corpus : saved[f] = task[t].docs[f]

(* A full reindexing starts from nothing: what it skips it has not read.    *)
FullRun(t) ==
  /\ At(t, {"upsert", "added", "recorded", "saving", "done"}) => FromNothing(t)
  /\ At(t, {"rebuild", "start", "read", "upsert", "added"}) =>
       docstore = t /\ stores[t] = EmptyDocstore
  /\ At(t, {"rebuild", "start", "read", "upsert", "added", "recorded"}) => saved = None
  /\ At(t, {"start"}) => pipeline = t

(* The lifespan's indexing is over before anything else is done; and what   *)
(* is left of a run that was alone.                                         *)
PrimaryFirst ==
  /\ Underway(Boot) => process = "indexing"
  /\ task[Boot].phase = "queued" => CollectionEmpty /\ pipeline = docstore

AloneFirst(t) ==
  /\ task[t].phase \notin {"new", "queued", "lost"}
  /\ t # Boot => process = "up"
  /\ \A u \in Actors \ {t} : ~ Running(u)

HealsAlone ==
  /\ \A t \in Actors : task[t].kind = "full" => task[t].files = {}
  /\ PrimaryFirst
  /\ \A t \in Actors :
       alone = t =>
         /\ AloneFirst(t)
         /\ t = Boot /\ task[t].phase # "failed" => FreshRun(t)
         /\ task[t].kind = "full" /\ task[t].phase # "failed" =>
              FreshRun(t) /\ FullRun(t)
         /\ task[t].kind = "full" /\ task[t].phase = "failed"
            /\ "failure" \notin history => NothingLeft

IngestionInv ==
  TypeOK /\ Served /\ CollectionHolds /\ InStep /\ KeepsFiles /\ HealsAlone
===============================================================================
