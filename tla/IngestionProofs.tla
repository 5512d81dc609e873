---------------------------- MODULE IngestionProofs ----------------------------
(***************************************************************************)
(* Proofs about the index of the knowledge base (Ingestion), for any files, *)
(* contents, days and tasks, queued, overlapping and stopped at any step.   *)
(*                                                                         *)
(* What each action does to the task that takes it is stated once (the      *)
(* lemmas on effects); the four parts of IngestionInv rest on those.        *)
(***************************************************************************)
EXTENDS Ingestion, TLAPS

Base == TypeOK /\ Served

OthersKeep(t) == \A u \in Actors \ {t} : task'[u] = task[u]
KeepsRequest(t) == task'[t].kind = task[t].kind /\ task'[t].files = task[t].files
KeepsWork(t) ==
  /\ task'[t].docs = task[t].docs /\ task'[t].todo = task[t].todo
  /\ task'[t].batch = task[t].batch /\ task'[t].store = task[t].store

-------------------------------------------------------------------------------
(* What the actions do to the tasks.                                        *)

LEMMA IdleIsJob ==
  /\ Idle \in Job /\ EmptyDocstore \in Docstore
  /\ Idle.kind = "all" /\ Idle.files = {} /\ Idle.phase = "new" /\ Idle.batch = {}
BY DEF Idle, Job, Phases, EmptyDocstore, Docstore

LEMMA EntersPhase ==
  ASSUME TypeOK, NEW t \in Actors, NEW phase \in Phases, Enter(t, phase)
  PROVE  /\ task' \in [Actors -> Job]
         /\ OthersKeep(t) /\ KeepsRequest(t) /\ KeepsWork(t)
         /\ task'[t].phase = phase
<1>1. task \in [Actors -> Job] /\ task[t] \in Job
  BY DEF TypeOK
<1>2. task' = [task EXCEPT ![t].phase = phase]
  BY DEF Enter
<1>3. task'[t] = [task[t] EXCEPT !.phase = phase] /\ OthersKeep(t)
  BY <1>1, <1>2 DEF OthersKeep
<1>4. task'[t] \in Job
  BY <1>1, <1>3 DEF Job
<1>5. task' \in [Actors -> Job]
  BY <1>1, <1>2, <1>4
<1> QED
  BY <1>1, <1>3, <1>5 DEF KeepsRequest, KeepsWork, Job

LEMMA Queues ==
  ASSUME TypeOK, NEW t \in Actors, NEW files \in SUBSET Files,
         NEW kind \in {"upload", "files", "all", "full"},
         task' = [task EXCEPT ![t] = [Idle EXCEPT !.kind = kind, !.files = files,
                                                  !.phase = "queued"]]
  PROVE  /\ task' \in [Actors -> Job] /\ OthersKeep(t)
         /\ task'[t].phase = "queued"
         /\ task'[t].kind = kind /\ task'[t].files = files /\ task'[t].batch = {}
<1>1. task \in [Actors -> Job]
  BY DEF TypeOK
<1>2. [Idle EXCEPT !.kind = kind, !.files = files, !.phase = "queued"] \in Job
  BY IdleIsJob DEF Job, Phases
<1>3. task'[t] = [Idle EXCEPT !.kind = kind, !.files = files, !.phase = "queued"]
  BY <1>1
<1>4. task'[t].phase = "queued" /\ task'[t].kind = kind /\ task'[t].files = files
      /\ task'[t].batch = {}
  BY <1>3, IdleIsJob DEF Idle
<1> QED
  BY <1>1, <1>2, <1>4 DEF OthersKeep

LEMMA Reads ==
  ASSUME TypeOK, NEW t \in Actors, Read(t)
  PROVE  /\ task' \in [Actors -> Job] /\ OthersKeep(t) /\ KeepsRequest(t)
         /\ task'[t].batch = task[t].batch
         /\ task'[t].phase =
              IF Asked(t) # {} THEN "read"
              ELSE IF task[t].files = {} THEN "failed" ELSE "done"
         /\ Asked(t) # {} =>
              \A f \in Files :
                task'[t].docs[f] = IF f \in Asked(t) THEN [text |-> disk[f], day |-> day]
                                   ELSE NoHash
<1>1. task \in [Actors -> Job] /\ task[t] \in Job
  BY DEF TypeOK
<1>2. CASE Asked(t) = {}
  <2>1. Enter(t, IF task[t].files = {} THEN "failed" ELSE "done")
    BY <1>2 DEF Read
  <2> QED
    BY <1>2, <2>1, EntersPhase DEF Phases, KeepsWork
<1>3. CASE Asked(t) # {}
  <2> DEFINE docs == [f \in Files |->
                IF f \in Asked(t) THEN [text |-> disk[f], day |-> day] ELSE NoHash]
  <2>1. docs \in Docstore
    <3> SUFFICES ASSUME NEW f \in Asked(t) PROVE f \in Files /\ [text |-> disk[f], day |-> day] \in Hash
      BY DEF Docstore
    <3>1. f \in Files /\ disk[f] # 0
      BY DEF Asked, Corpus
    <3>2. disk[f] \in Text
      BY <3>1, IngestionConstants DEF TypeOK, Text
    <3> QED
      BY <3>1, <3>2 DEF Hash, TypeOK
  <2>2. task' = [task EXCEPT ![t].phase = "read", ![t].docs = docs]
    BY <1>3 DEF Read
  <2> HIDE DEF docs
  <2>3. task'[t] = [task[t] EXCEPT !.phase = "read", !.docs = docs]
    BY <1>1, <2>2
  <2>4. task'[t] \in Job /\ task'[t].phase = "read" /\ task'[t].docs = docs
        /\ KeepsRequest(t) /\ task'[t].batch = task[t].batch
    BY <1>1, <2>1, <2>3 DEF Job, Phases, KeepsRequest
  <2>5. task' \in [Actors -> Job] /\ OthersKeep(t)
    BY <1>1, <2>2, <2>4 DEF OthersKeep
  <2> QED
    BY <1>3, <2>4, <2>5 DEF docs
<1> QED
  BY <1>2, <1>3

LEMMA RunsPipeline ==
  ASSUME TypeOK, NEW t \in Actors, RunPipeline(t)
  PROVE  /\ task' \in [Actors -> Job] /\ OthersKeep(t) /\ KeepsRequest(t)
         /\ task'[t].phase = "upsert" /\ task'[t].store = pipeline
         /\ task'[t].docs = task[t].docs /\ task'[t].batch = task[t].batch
         /\ task'[t].todo = {f \in Files : task[t].docs[f] # NoHash}
<1> DEFINE todo == {f \in Files : task[t].docs[f] # NoHash}
<1>1. task \in [Actors -> Job] /\ task[t] \in Job /\ pipeline \in Actors \cup {None}
  BY DEF TypeOK
<1>2. task' = [task EXCEPT ![t].phase = "upsert", ![t].store = pipeline, ![t].todo = todo]
  BY DEF RunPipeline
<1>3. todo \in SUBSET Files
  OBVIOUS
<1> HIDE DEF todo
<1>4. task'[t] = [task[t] EXCEPT !.phase = "upsert", !.store = pipeline, !.todo = todo]
  BY <1>1, <1>2
<1>5. task'[t] \in Job /\ KeepsRequest(t)
      /\ task'[t].phase = "upsert" /\ task'[t].store = pipeline
      /\ task'[t].docs = task[t].docs /\ task'[t].batch = task[t].batch
      /\ task'[t].todo = todo
  BY <1>1, <1>3, <1>4 DEF Job, Phases, KeepsRequest
<1>6. task' \in [Actors -> Job] /\ OthersKeep(t)
  BY <1>1, <1>2, <1>5 DEF OthersKeep
<1> QED
  BY <1>5, <1>6 DEF todo

LEMMA Upserts ==
  ASSUME TypeOK, NEW t \in Actors, NEW f \in Files, Upsert(t, f)
  PROVE  /\ task' \in [Actors -> Job] /\ OthersKeep(t) /\ KeepsRequest(t)
         /\ task[t].phase = "upsert" /\ task'[t].phase = "upsert"
         /\ task'[t].store = task[t].store /\ task'[t].docs = task[t].docs
         /\ f \in task[t].todo /\ task'[t].todo = task[t].todo \ {f}
         /\ task'[t].batch = IF Same(t, f) THEN task[t].batch ELSE task[t].batch \cup {f}
         /\ UNCHANGED <<corpus, collection, raw, initialized, service, boot, history, alone>>
<1> DEFINE batch == IF Same(t, f) THEN task[t].batch ELSE task[t].batch \cup {f}
<1>1. task \in [Actors -> Job] /\ task[t] \in Job
  BY DEF TypeOK
<1>2. task[t].phase = "upsert" /\ f \in task[t].todo
      /\ task' = [task EXCEPT ![t].todo = task[t].todo \ {f}, ![t].batch = batch]
  BY <1>1 DEF Upsert, Decide
<1>3. batch \in SUBSET Files
  BY <1>1 DEF Job
<1> HIDE DEF batch
<1>4. task'[t] = [task[t] EXCEPT !.todo = task[t].todo \ {f}, !.batch = batch]
  BY <1>1, <1>2
<1>5. task'[t] \in Job /\ KeepsRequest(t)
      /\ task'[t].phase = task[t].phase /\ task'[t].store = task[t].store
      /\ task'[t].docs = task[t].docs /\ task'[t].batch = batch
      /\ task'[t].todo = task[t].todo \ {f}
  BY <1>1, <1>3, <1>4 DEF Job, KeepsRequest
<1>6. task' \in [Actors -> Job] /\ OthersKeep(t)
  BY <1>1, <1>2, <1>5 DEF OthersKeep
<1>7. UNCHANGED <<corpus, collection, raw, initialized, service, boot, history, alone>>
  BY DEF Upsert, Decide
<1> QED
  BY <1>2, <1>5, <1>6, <1>7 DEF batch

(* A part of a batch is added to what has a type; nothing of nothing is no  *)
(* change.                                                                  *)
LEMMA Adds ==
  ASSUME TypeOK, NEW t \in Actors, NEW part \in SUBSET Files,
         NEW reached \in BOOLEAN, Add(t, part, reached)
  PROVE  /\ copies' \in [Files -> [Hash -> Nat]]
         /\ collection' \in {"missing", "exists"} /\ initialized' \in BOOLEAN
         /\ part = {} => copies' = copies
         /\ ~ reached => collection' = collection /\ initialized' = initialized
         /\ reached => collection' = "exists"
<1>1. ASSUME NEW f \in Files
      PROVE  (IF f \in part THEN [copies[f] EXCEPT ![task[t].docs[f]] = @ + 1]
              ELSE copies[f]) \in [Hash -> Nat]
  <2>1. copies[f] \in [Hash -> Nat]
    BY DEF TypeOK
  <2>2. \A h \in Hash : copies[f][h] + 1 \in Nat
    BY <2>1
  <2> QED
    BY <2>1, <2>2
<1>2. copies' \in [Files -> [Hash -> Nat]]
  BY <1>1 DEF Add
<1>3. part = {} => copies' = copies
  BY DEF Add, TypeOK
<1> QED
  BY <1>2, <1>3 DEF Add, TypeOK

LEMMA FailsAside ==
  ASSUME TypeOK, NEW t \in Actors, Fails(t)
  PROVE  /\ task' \in [Actors -> Job]
         /\ OthersKeep(t) /\ KeepsRequest(t) /\ KeepsWork(t)
         /\ task'[t].phase = "failed"
         /\ disk' \in [Files -> 0 .. MaxText] /\ quarantined' \in [Files -> 0 .. MaxText]
         /\ task[t].kind # "upload" => disk' = disk
         /\ UNCHANGED <<raw, service, boot, alone>>
<1>1. Enter(t, "failed") /\ "failed" \in Phases
  BY DEF Fails, Phases
<1>2. disk' \in [Files -> 0 .. MaxText] /\ quarantined' \in [Files -> 0 .. MaxText]
  BY IngestionConstants DEF Fails, TypeOK
<1>3. task[t].kind # "upload" => disk' = disk
  BY DEF Fails, TypeOK
<1> QED
  BY <1>1, <1>2, <1>3, EntersPhase DEF Fails

LEMMA Stops ==
  ASSUME TypeOK, Stop
  PROVE  /\ task' \in [Actors -> Job]
         /\ \A t \in Actors :
              IF t # Boot /\ task[t].phase \in {"new", "done", "failed"}
              THEN task'[t] = task[t]
              ELSE task'[t].phase = "lost" /\ task'[t].kind = "all" /\ task'[t].files = {}
<1>1. task \in [Actors -> Job]
  BY DEF TypeOK
<1>2. [Idle EXCEPT !.phase = "lost"] \in Job
  BY IdleIsJob DEF Job, Phases
<1>3. LET gone == [Idle EXCEPT !.phase = "lost"]
      IN  gone.phase = "lost" /\ gone.kind = "all" /\ gone.files = {}
  BY DEF Idle
<1> QED
  BY <1>1, <1>2, <1>3 DEF Stop

LEMMA Starts ==
  ASSUME TypeOK, Start
  PROVE  /\ task' \in [Actors -> Job] /\ OthersKeep(Boot)
         /\ \/ task'[Boot] = task[Boot] /\ ~ CollectionEmpty /\ process' = "building"
            \/ /\ CollectionEmpty /\ process' = "indexing"
               /\ task'[Boot].phase = "queued" /\ task'[Boot].kind = "all"
               /\ task'[Boot].files = {} /\ task'[Boot].batch = {}
<1>1. task \in [Actors -> Job] /\ Boot \in Actors
  BY DEF TypeOK, Actors
<1>2. CASE CollectionEmpty
  <2> DEFINE primary == [Idle EXCEPT !.phase = "queued"]
  <2>1. task' = [task EXCEPT ![Boot] = primary] /\ process' = "indexing"
    BY <1>2 DEF Start
  <2>2. /\ primary \in Job /\ primary.phase = "queued" /\ primary.kind = "all"
        /\ primary.files = {} /\ primary.batch = {}
    BY IdleIsJob DEF Job, Phases, Idle
  <2> HIDE DEF primary
  <2> QED
    BY <1>1, <1>2, <2>1, <2>2 DEF OthersKeep
<1>3. CASE ~ CollectionEmpty
  BY <1>1, <1>3 DEF Start, OthersKeep
<1> QED
  BY <1>2, <1>3

-------------------------------------------------------------------------------
(* Types, and tasks only where there is a service.                          *)

LEMMA BaseInit == Init => Base
<1> SUFFICES ASSUME Init PROVE Base
  OBVIOUS
<1>1. Boot \in Actors /\ Idle \in Job /\ EmptyDocstore \in Docstore
  BY IdleIsJob DEF Actors
<1>2. NoCopies \in [Hash -> Nat]
  BY DEF NoCopies
<1>3. TypeOK
  <2>1. disk \in [Files -> 0 .. MaxText] /\ quarantined \in [Files -> 0 .. MaxText]
        /\ day \in 1 .. MaxDay
    BY IngestionConstants DEF Init
  <2>2. copies \in [Files -> [Hash -> Nat]] /\ raw \subseteq Files
        /\ collection \in {"missing", "exists"} /\ initialized \in BOOLEAN
    BY <1>2 DEF Init
  <2>3. /\ stores \in [Actors -> Docstore] /\ task \in [Actors -> Job]
        /\ saved = None /\ docstore = None /\ pipeline = None /\ alone = None
        /\ process = "down"
    BY <1>1 DEF Init
  <2> QED
    BY <2>1, <2>2, <2>3 DEF TypeOK
<1>4. \A t \in Actors : task[t] = Idle
  BY DEF Init
<1>5. Served
  BY <1>1, <1>4, IdleIsJob DEF Init, Served, Underway, Running
<1> QED
  BY <1>3, <1>5 DEF Base

(* A task that enters a phase, with everything else that Served is about    *)
(* left alone.                                                              *)
LEMMA EnteringIsServed ==
  ASSUME Base, NEW t \in Actors, NEW phase \in Phases, Enter(t, phase),
         Underway(t),
         UNCHANGED <<process>>, docstore' # None <=> pipeline' # None,
         docstore # None => docstore' # None, alone' = None \/ process # "down",
         phase \in {"forget", "rebuild", "start"} => task[t].kind = "full",
         phase \in {"queued", "forget", "rebuild", "start", "read"} => task[t].batch = {},
         phase \in {"upsert", "added"} => task[t].phase \in {"upsert", "added"}
  PROVE  Served'
<1>1. /\ OthersKeep(t) /\ KeepsRequest(t) /\ KeepsWork(t) /\ task'[t].phase = phase
  BY EntersPhase DEF Base
<1>2. docstore # None /\ process # "down" /\ docstore' # None
      /\ (t # Boot => process = "up")
  BY DEF Base, Served
<1>3. /\ task'[Boot].kind = "all" /\ task'[Boot].files = {}
  BY <1>1 DEF Base, Served, OthersKeep, KeepsRequest, Actors
<1>4. ASSUME NEW u \in Actors
      PROVE  /\ Underway(u)' => docstore' # None /\ (u # Boot => process' = "up")
             /\ task'[u].phase \in {"forget", "rebuild", "start"} => task'[u].kind = "full"
             /\ task'[u].phase \in {"queued", "forget", "rebuild", "start", "read"} =>
                  task'[u].batch = {}
             /\ task'[u].phase \in {"upsert", "added"} =>
                  /\ task'[u].store # None
                  /\ \A f \in task'[u].todo \cup task'[u].batch : task'[u].docs[f] # NoHash
  <2>1. CASE u = t
    BY <1>1, <1>2, <2>1 DEF Base, Served, KeepsRequest, KeepsWork
  <2>2. CASE u # t
    <3>1. task'[u] = task[u]
      BY <1>1, <2>2 DEF OthersKeep
    <3> QED
      BY <1>2, <3>1 DEF Base, Served, Underway, Running
  <2> QED
    BY <2>1, <2>2
<1> QED
  BY <1>2, <1>3, <1>4 DEF Served

LEMMA ProcessKeepsBase ==
  ASSUME Base, \/ Start \/ StartWithoutService \/ Build \/ BuildFails
               \/ BootIndexed \/ Stop \/ NextDay \/ UNCHANGED vars
  PROVE  Base'
<1>0. TypeOK /\ Served /\ Boot \in Actors /\ Boot # None /\ EmptyDocstore \in Docstore
      /\ Torn # None
  BY IngestionMarkers, IdleIsJob DEF Base, Actors
<1>1. CASE Start
  <2>1. /\ task' \in [Actors -> Job] /\ OthersKeep(Boot)
        /\ \/ task'[Boot] = task[Boot]
           \/ /\ task'[Boot].phase = "queued" /\ task'[Boot].kind = "all"
              /\ task'[Boot].files = {} /\ task'[Boot].batch = {}
        /\ process' \in {"building", "indexing"}
    BY <1>0, <1>1, Starts
  <2>2. (IF saved = None THEN EmptyDocstore ELSE saved) \in Docstore
    BY <1>0, <1>1 DEF Start, TypeOK
  <2>3. stores' \in [Actors -> Docstore]
    BY <1>0, <1>1, <2>2 DEF Start, TypeOK
  <2>4. docstore' = Boot /\ pipeline' = Boot /\ docstore = None /\ alone' = None
    BY <1>0, <1>1 DEF Start, Served
  <2>5. TypeOK'
    BY <1>0, <1>1, <2>1, <2>3, <2>4 DEF Start, TypeOK, corpus
  <2>6. \A t \in Actors : ~ Underway(t)
    BY <1>0, <2>4 DEF Served
  <2>7. Served'
    BY <1>0, <2>1, <2>4, <2>6 DEF Served, Underway, Running, OthersKeep
  <2> QED
    BY <2>5, <2>7 DEF Base
<1>2. CASE StartWithoutService
  <2>1. TypeOK'
    BY <1>0, <1>2 DEF StartWithoutService, TypeOK, corpus, vectors, service
  <2>2. Served'
    BY <1>0, <1>2 DEF StartWithoutService, Served, Underway, Running, service
  <2> QED
    BY <2>1, <2>2 DEF Base
<1>3. CASE Build \/ BuildFails
  <2>1. raw' \subseteq Files /\ collection' \in {"missing", "exists"} /\ copies' = copies
        /\ process = "building" /\ process' = "up"
        /\ UNCHANGED <<disk, quarantined, initialized, day, service, task, alone>>
    BY <1>0, <1>3 DEF Build, BuildFails, TypeOK, corpus, vectors
  <2>2. TypeOK'
    BY <1>0, <2>1 DEF TypeOK, service
  <2>3. Served'
    BY <1>0, <2>1 DEF Served, Underway, Running, service
  <2> QED
    BY <2>2, <2>3 DEF Base
<1>4. CASE BootIndexed
  <2>1. process = "indexing" /\ process' \in {"building", "up"}
    BY <1>4 DEF BootIndexed
  <2>2. TypeOK'
    BY <1>0, <1>4, <2>1 DEF BootIndexed, TypeOK, corpus, vectors, service
  <2>3. Served'
    BY <1>0, <1>4, <2>1 DEF BootIndexed, Served, Underway, Running, service
  <2> QED
    BY <2>2, <2>3 DEF Base
<1>5. CASE Stop
  <2>1. /\ task' \in [Actors -> Job]
        /\ \A t \in Actors :
             IF t # Boot /\ task[t].phase \in {"new", "done", "failed"}
             THEN task'[t] = task[t]
             ELSE task'[t].phase = "lost" /\ task'[t].kind = "all" /\ task'[t].files = {}
    BY <1>0, <1>5, Stops
  <2>2. stores' \in [Actors -> Docstore]
    BY <1>0, <1>5 DEF Stop
  <2>3. docstore' = None /\ pipeline' = None /\ alone' = None
    BY <1>5 DEF Stop
  <2>4. TypeOK'
    BY <1>0, <1>5, <2>1, <2>2, <2>3 DEF Stop, TypeOK, corpus
  <2>5. \A t \in Actors : task'[t].phase \in {"new", "done", "failed", "lost"}
    BY <2>1
  <2>6. Served'
    BY <1>0, <2>1, <2>3, <2>5 DEF Served, Underway, Running
  <2> QED
    BY <2>4, <2>6 DEF Base
<1>6. CASE NextDay
  <2>1. day' \in 1 .. MaxDay
    BY <1>0, <1>6, IngestionConstants DEF NextDay, TypeOK
  <2>2. TypeOK'
    BY <1>0, <1>6, <2>1 DEF NextDay, TypeOK, corpus, vectors, service
  <2>3. Served'
    BY <1>0, <1>6 DEF NextDay, Served, Underway, Running, service
  <2> QED
    BY <2>2, <2>3 DEF Base
<1>7. CASE UNCHANGED vars
  <2>1. TypeOK' /\ Served'
    BY <1>0, <1>7 DEF vars, TypeOK, Served, Underway, Running
  <2> QED
    BY <2>1 DEF Base
<1> QED
  BY <1>1, <1>2, <1>3, <1>4, <1>5, <1>6, <1>7

LEMMA RequestKeepsBase ==
  ASSUME Base, NEW t \in Tasks,
         \/ \E f \in Files, x \in Text : UploadDocument(t, f, x)
         \/ \E kind \in {"files", "all", "full"}, files \in SUBSET Files :
              Reindex(t, kind, files)
  PROVE  Base'
<1>0. TypeOK /\ Served /\ t \in Actors /\ t # Boot /\ Boot \in Actors
  BY IngestionConstants DEF Base, Actors
<1>1. PICK k \in {"upload", "files", "all", "full"}, asked \in SUBSET Files :
        task' = [task EXCEPT ![t] = [Idle EXCEPT !.kind = k, !.files = asked,
                                                 !.phase = "queued"]]
  <2>1. CASE \E f \in Files, x \in Text : UploadDocument(t, f, x)
    BY <2>1 DEF UploadDocument
  <2>2. CASE \E kind \in {"files", "all", "full"}, files \in SUBSET Files :
               Reindex(t, kind, files)
    BY <2>2 DEF Reindex
  <2> QED
    BY <2>1, <2>2
<1>2. /\ disk' \in [Files -> 0 .. MaxText] /\ alone' \in {None, alone}
      /\ process = "up" /\ docstore # None
      /\ UNCHANGED <<quarantined, vectors, service, boot>>
  <2>1. CASE \E f \in Files, x \in Text : UploadDocument(t, f, x)
    <3>1. PICK f \in Files, x \in Text : UploadDocument(t, f, x)
      BY <2>1
    <3>2. x \in 0 .. MaxText
      BY IngestionConstants DEF Text
    <3>3. disk' \in [Files -> 0 .. MaxText]
      BY <1>0, <3>1, <3>2 DEF UploadDocument, TypeOK
    <3> QED
      BY <3>1, <3>3 DEF UploadDocument
  <2>2. CASE \E kind \in {"files", "all", "full"}, files \in SUBSET Files :
               Reindex(t, kind, files)
    <3>1. disk' = disk /\ alone' = alone /\ process = "up" /\ docstore # None
          /\ UNCHANGED <<quarantined, vectors, service, boot>>
      BY <2>2 DEF Reindex, corpus
    <3> QED
      BY <1>0, <3>1 DEF TypeOK
  <2> QED
    BY <2>1, <2>2
<1>3. /\ task' \in [Actors -> Job] /\ OthersKeep(t)
      /\ task'[t].phase = "queued" /\ task'[t].batch = {}
  BY <1>0, <1>1, Queues
<1>4. TypeOK'
  BY <1>0, <1>2, <1>3 DEF TypeOK, vectors, service, boot
<1>5. task'[Boot] = task[Boot]
  BY <1>0, <1>3 DEF OthersKeep
<1>6. Served'
  BY <1>0, <1>2, <1>3, <1>5 DEF Served, Underway, Running, OthersKeep, service, boot
<1> QED
  BY <1>4, <1>6 DEF Base

LEMMA WorkKeepsBase ==
  ASSUME Base, NEW t \in Actors, Work(t)
  PROVE  Base'
<1>0. TypeOK /\ Served /\ t \in Actors /\ EmptyDocstore \in Docstore
      /\ None \notin Actors /\ task[t] \in Job
  BY IngestionMarkers, IdleIsJob DEF Base, TypeOK
<1>01. Underway(t) => docstore \in Actors /\ pipeline \in Actors /\ process # "down"
  BY <1>0 DEF TypeOK, Served
<1>02. ASSUME NEW phase \in Phases, Enter(t, phase)
       PROVE  task' \in [Actors -> Job]
  BY <1>0, <1>02, EntersPhase
<1>1. CASE DeleteCollection(t)
  <2>1. Enter(t, "forget") /\ Underway(t) /\ UNCHANGED <<corpus, initialized, service, boot>>
        /\ task[t].phase = "queued" /\ task[t].kind = "full"
        /\ alone' \in {None, t}
    BY <1>1 DEF DeleteCollection, Underway
  <2>2. copies' \in [Files -> [Hash -> Nat]] /\ raw' = {} /\ collection' = "missing"
    BY <1>1 DEF DeleteCollection, NoCopies
  <2>3. "forget" \in Phases /\ task' \in [Actors -> Job]
    BY <1>02, <2>1 DEF Phases
  <2>4. TypeOK'
    BY <1>0, <2>1, <2>2, <2>3 DEF TypeOK, corpus, service, boot
  <2>5. task[t].batch = {}
    BY <1>0, <2>1 DEF Served
  <2>6. Served'
    BY <1>0, <1>01, <2>1, <2>3, <2>5, EnteringIsServed DEF Base, service, boot, Served
  <2> QED
    BY <2>4, <2>6 DEF Base
<1>2. CASE ForgetDocstore(t)
  <2>1. Enter(t, "rebuild") /\ Underway(t) /\ UNCHANGED <<corpus, vectors, pipeline, boot, alone>>
        /\ task[t].phase = "forget" /\ docstore' = t /\ saved' = None
    BY <1>2 DEF ForgetDocstore, Underway, Running
  <2>2. stores' \in [Actors -> Docstore]
    BY <1>0, <1>2 DEF ForgetDocstore, TypeOK
  <2>3. "rebuild" \in Phases /\ task' \in [Actors -> Job]
    BY <1>02, <2>1 DEF Phases
  <2>4. TypeOK'
    BY <1>0, <2>1, <2>2, <2>3 DEF TypeOK, corpus, vectors, boot
  <2>5. task[t].batch = {} /\ task[t].kind = "full"
    BY <1>0, <2>1 DEF Served
  <2>6. Served'
    BY <1>0, <1>01, <2>1, <2>3, <2>5, EnteringIsServed DEF Base, boot
  <2> QED
    BY <2>4, <2>6 DEF Base
<1>3. CASE BuildPipeline(t)
  <2>1. Enter(t, "start") /\ Underway(t)
        /\ UNCHANGED <<corpus, vectors, stores, docstore, saved, boot, alone>>
        /\ task[t].phase = "rebuild" /\ pipeline' = docstore
    BY <1>3 DEF BuildPipeline, Underway, Running
  <2>2. "start" \in Phases /\ task' \in [Actors -> Job]
    BY <1>02, <2>1 DEF Phases
  <2>3. TypeOK'
    BY <1>0, <2>1, <2>2 DEF TypeOK, corpus, vectors, boot
  <2>4. task[t].batch = {} /\ task[t].kind = "full"
    BY <1>0, <2>1 DEF Served
  <2>5. Served'
    BY <1>0, <1>01, <2>1, <2>2, <2>4, EnteringIsServed DEF Base, boot
  <2> QED
    BY <2>3, <2>5 DEF Base
<1>4. CASE Read(t)
  <2>1. /\ UNCHANGED <<corpus, vectors, service, boot>> /\ Underway(t)
        /\ alone' \in {None, t, alone}
        /\ task[t].phase \in {"queued", "start"}
    BY <1>4 DEF Read, Underway, Running
  <2>2. /\ task' \in [Actors -> Job] /\ OthersKeep(t) /\ KeepsRequest(t)
        /\ task'[t].batch = task[t].batch /\ task'[t].phase \in {"read", "failed", "done"}
    BY <1>0, <1>4, Reads
  <2>3. TypeOK'
    BY <1>0, <2>1, <2>2 DEF TypeOK, corpus, vectors, service, boot
  <2>4. task[t].batch = {}
    BY <1>0, <2>1 DEF Served
  <2>5. task'[Boot].kind = "all" /\ task'[Boot].files = {}
    BY <1>0, <2>2 DEF Served, OthersKeep, KeepsRequest, Actors
  <2>6. docstore' # None /\ process' = process /\ (t # Boot => process = "up")
        /\ process # "down" /\ docstore' = docstore /\ pipeline' = pipeline
    BY <1>0, <1>01, <2>1 DEF service, boot, Served
  <2>7. ASSUME NEW u \in Actors
        PROVE  /\ Underway(u)' => docstore' # None /\ (u # Boot => process' = "up")
               /\ task'[u].phase \in {"forget", "rebuild", "start"} => task'[u].kind = "full"
               /\ task'[u].phase \in {"queued", "forget", "rebuild", "start", "read"} =>
                    task'[u].batch = {}
               /\ task'[u].phase \in {"upsert", "added"} =>
                    /\ task'[u].store # None
                    /\ \A f \in task'[u].todo \cup task'[u].batch : task'[u].docs[f] # NoHash
    <3>1. CASE u = t
      BY <2>2, <2>4, <2>6, <3>1
    <3>2. CASE u # t
      BY <1>0, <2>2, <2>6, <3>2 DEF Served, OthersKeep, Underway, Running
    <3> QED
      BY <3>1, <3>2
  <2>8. Served'
    BY <1>0, <2>5, <2>6, <2>7 DEF Served
  <2> QED
    BY <2>3, <2>8 DEF Base
<1>5. CASE RunPipeline(t)
  <2>1. /\ UNCHANGED <<corpus, vectors, service, boot, alone>> /\ Underway(t)
        /\ task[t].phase = "read"
    BY <1>5 DEF RunPipeline, Underway, Running
  <2>2. /\ task' \in [Actors -> Job] /\ OthersKeep(t) /\ KeepsRequest(t)
        /\ task'[t].phase = "upsert" /\ task'[t].store = pipeline
        /\ task'[t].docs = task[t].docs /\ task'[t].batch = task[t].batch
        /\ task'[t].todo = {f \in Files : task[t].docs[f] # NoHash}
    BY <1>0, <1>5, RunsPipeline
  <2>3. TypeOK'
    BY <1>0, <2>1, <2>2 DEF TypeOK, corpus, vectors, service, boot
  <2>4. task[t].batch = {}
    BY <1>0, <2>1 DEF Served
  <2>5. task'[Boot].kind = "all" /\ task'[Boot].files = {}
    BY <1>0, <2>2 DEF Served, OthersKeep, KeepsRequest, Actors
  <2>6. docstore' # None /\ process' = process /\ (t # Boot => process = "up")
        /\ process # "down" /\ docstore' = docstore /\ pipeline' = pipeline /\ pipeline # None
    BY <1>0, <1>01, <2>1 DEF service, boot, Served
  <2>7. ASSUME NEW u \in Actors
        PROVE  /\ Underway(u)' => docstore' # None /\ (u # Boot => process' = "up")
               /\ task'[u].phase \in {"forget", "rebuild", "start"} => task'[u].kind = "full"
               /\ task'[u].phase \in {"queued", "forget", "rebuild", "start", "read"} =>
                    task'[u].batch = {}
               /\ task'[u].phase \in {"upsert", "added"} =>
                    /\ task'[u].store # None
                    /\ \A f \in task'[u].todo \cup task'[u].batch : task'[u].docs[f] # NoHash
    <3>1. CASE u = t
      BY <2>2, <2>4, <2>6, <3>1
    <3>2. CASE u # t
      BY <1>0, <2>2, <2>6, <3>2 DEF Served, OthersKeep, Underway, Running
    <3> QED
      BY <3>1, <3>2
  <2>8. Served'
    BY <1>0, <2>1, <2>5, <2>6, <2>7 DEF Served
  <2> QED
    BY <2>3, <2>8 DEF Base
<1>6. CASE \E f \in Files : Upsert(t, f)
  <2>0. PICK f \in Files : Upsert(t, f)
    BY <1>6
  <2>1. /\ task' \in [Actors -> Job] /\ OthersKeep(t) /\ KeepsRequest(t)
        /\ task[t].phase = "upsert" /\ task'[t].phase = "upsert"
        /\ task'[t].store = task[t].store /\ task'[t].docs = task[t].docs
        /\ task'[t].todo \cup task'[t].batch \subseteq task[t].todo \cup task[t].batch
    BY <1>0, <2>0, Upserts
  <2>2. UNCHANGED <<corpus, collection, raw, initialized, service, boot, alone>>
        /\ Underway(t)
    BY <1>0, <2>0, <2>1, Upserts DEF Underway, Running
  <2>3. copies' \in [Files -> [Hash -> Nat]]
    BY <1>0, <2>0 DEF Upsert, TypeOK, NoCopies
  <2>4. TypeOK'
    BY <1>0, <2>1, <2>2, <2>3 DEF TypeOK, corpus, service, boot
  <2>5. task'[Boot].kind = "all" /\ task'[Boot].files = {}
    BY <1>0, <2>1 DEF Served, OthersKeep, KeepsRequest, Actors
  <2>6. docstore' # None /\ process' = process /\ (t # Boot => process = "up")
        /\ process # "down" /\ docstore' = docstore /\ pipeline' = pipeline
    BY <1>0, <1>01, <2>2 DEF boot, service, Served
  <2>7. ASSUME NEW u \in Actors
        PROVE  /\ Underway(u)' => docstore' # None /\ (u # Boot => process' = "up")
               /\ task'[u].phase \in {"forget", "rebuild", "start"} => task'[u].kind = "full"
               /\ task'[u].phase \in {"queued", "forget", "rebuild", "start", "read"} =>
                    task'[u].batch = {}
               /\ task'[u].phase \in {"upsert", "added"} =>
                    /\ task'[u].store # None
                    /\ \A g \in task'[u].todo \cup task'[u].batch : task'[u].docs[g] # NoHash
    <3>1. CASE u = t
      BY <1>0, <2>1, <2>6, <3>1 DEF Served
    <3>2. CASE u # t
      BY <1>0, <2>1, <2>6, <3>2 DEF Served, OthersKeep, Underway, Running
    <3> QED
      BY <3>1, <3>2
  <2>8. Served'
    BY <1>0, <2>2, <2>5, <2>6, <2>7 DEF Served
  <2> QED
    BY <2>4, <2>8 DEF Base
<1>7. CASE AddVectors(t)
  <2>1. Enter(t, "added") /\ Underway(t) /\ UNCHANGED <<corpus, raw, service, boot, alone>>
        /\ task[t].phase = "upsert"
    BY <1>7 DEF AddVectors, Underway, Running
  <2>2. Add(t, task[t].batch, task[t].batch # {}) /\ task[t].batch \in SUBSET Files
    BY <1>0, <1>7 DEF AddVectors, Job
  <2>3. copies' \in [Files -> [Hash -> Nat]]
        /\ collection' \in {"missing", "exists"} /\ initialized' \in BOOLEAN
    BY <1>0, <2>2, Adds
  <2>4. "added" \in Phases /\ task' \in [Actors -> Job]
    BY <1>02, <2>1 DEF Phases
  <2>5. TypeOK'
    BY <1>0, <2>1, <2>3, <2>4 DEF TypeOK, corpus, service, boot
  <2>6. Served'
    BY <1>0, <1>01, <2>1, <2>4, EnteringIsServed DEF Base, boot, service, Served
  <2> QED
    BY <2>5, <2>6 DEF Base
<1>8. CASE RecordHashes(t)
  <2>1. Enter(t, "recorded") /\ Underway(t)
        /\ UNCHANGED <<corpus, vectors, docstore, pipeline, saved, boot, alone>>
        /\ task[t].phase = "added"
    BY <1>8 DEF RecordHashes, Underway, Running
  <2>2. task[t].store \in Actors /\ stores[task[t].store] \in Docstore /\ task[t].docs \in Docstore
    BY <1>0, <2>1 DEF Served, Job, TypeOK
  <2>3. [f \in Files |-> IF f \in task[t].batch THEN task[t].docs[f]
                         ELSE stores[task[t].store][f]] \in Docstore
    BY <2>2 DEF Docstore
  <2>4. stores' \in [Actors -> Docstore]
    BY <1>0, <1>8, <2>2, <2>3 DEF RecordHashes, TypeOK
  <2>5. "recorded" \in Phases /\ task' \in [Actors -> Job]
    BY <1>02, <2>1 DEF Phases
  <2>6. TypeOK'
    BY <1>0, <2>1, <2>4, <2>5 DEF TypeOK, corpus, vectors, boot
  <2>7. Served'
    BY <1>0, <1>01, <2>1, <2>5, EnteringIsServed DEF Base, boot, Served
  <2> QED
    BY <2>6, <2>7 DEF Base
<1>9. CASE OpenDocstoreFile(t) \/ PersistDocstore(t)
  <2>1. PICK phase \in {"saving", "done"} : Enter(t, phase)
    BY <1>9 DEF OpenDocstoreFile, PersistDocstore
  <2>2. /\ UNCHANGED <<corpus, vectors, stores, docstore, pipeline, boot, alone>>
        /\ Underway(t) /\ saved' \in {Torn, stores[docstore]}
    BY <1>9 DEF OpenDocstoreFile, PersistDocstore, Underway, Running
  <2>3. saved' \in Docstore \cup {None, Torn}
    BY <1>0, <1>01, <2>2 DEF TypeOK
  <2>4. phase \in Phases /\ task' \in [Actors -> Job]
    BY <1>02, <2>1 DEF Phases
  <2>5. TypeOK'
    BY <1>0, <2>2, <2>3, <2>4 DEF TypeOK, corpus, vectors, boot
  <2>6. Served'
    BY <1>0, <1>01, <2>1, <2>2, <2>4, EnteringIsServed DEF Base, boot, Served
  <2> QED
    BY <2>5, <2>6 DEF Base
<1>10. CASE TaskFails(t) \/ CollectionGone(t)
  <2>1. Fails(t) /\ Underway(t)
    BY <1>10 DEF TaskFails, CollectionGone, Underway, Running
  <2>2. /\ task' \in [Actors -> Job]
        /\ disk' \in [Files -> 0 .. MaxText] /\ quarantined' \in [Files -> 0 .. MaxText]
        /\ UNCHANGED <<raw, service, boot, alone>>
    BY <1>0, <2>1, FailsAside
  <2>3. copies' \in [Files -> [Hash -> Nat]]
        /\ collection' \in {"missing", "exists"} /\ initialized' \in BOOLEAN
    <3>1. CASE TaskFails(t)
      <4>1. PICK part \in SUBSET task[t].batch, reached \in BOOLEAN : Add(t, part, reached)
        BY <3>1 DEF TaskFails
      <4>2. part \in SUBSET Files
        BY <1>0 DEF Job
      <4> QED
        BY <1>0, <4>1, <4>2, Adds
    <3>2. CASE CollectionGone(t)
      BY <1>0, <3>2 DEF CollectionGone, TypeOK
    <3> QED
      BY <1>10, <3>1, <3>2
  <2>4. TypeOK'
    BY <1>0, <2>2, <2>3 DEF TypeOK, service, boot
  <2>5. Enter(t, "failed") /\ "failed" \in Phases
    BY <2>1 DEF Fails, Phases
  <2>6. Served'
    BY <1>0, <1>01, <2>1, <2>2, <2>5, EnteringIsServed DEF Base, boot, service, Served
  <2> QED
    BY <2>4, <2>6 DEF Base
<1> QED
  BY <1>1, <1>2, <1>3, <1>4, <1>5, <1>6, <1>7, <1>8, <1>9, <1>10 DEF Work

(* The types, and where tasks exist, in every state.                        *)
THEOREM IndexTypeCorrect == Spec => []Base
<1>1. Base /\ [Next]_vars => Base'
  BY ProcessKeepsBase, RequestKeepsBase, WorkKeepsBase DEF Next
<1> QED
  BY <1>1, BaseInit, PTL DEF Spec

(* A collection that is missing holds nothing.                              *)
THEOREM MissingIsEmpty == Spec => [](Base /\ CollectionHolds)
<1>1. Init => CollectionHolds
  BY DEF Init, CollectionHolds, CollectionEmpty
<1>2. Base /\ CollectionHolds /\ [Next]_vars => CollectionHolds'
  <2> SUFFICES ASSUME Base, CollectionHolds, [Next]_vars, collection' = "missing"
               PROVE  CollectionEmpty'
    BY DEF CollectionHolds
  <2>0. TypeOK
    BY DEF Base
  <2>1. CASE \/ Start \/ StartWithoutService \/ Build \/ BuildFails
             \/ BootIndexed \/ Stop \/ NextDay \/ UNCHANGED vars
    BY <2>1 DEF Start, StartWithoutService, Build, BuildFails, BootIndexed, Stop, NextDay,
       vars, vectors, CollectionHolds, CollectionEmpty
  <2>2. CASE \E t \in Tasks :
               \/ \E f \in Files, x \in Text : UploadDocument(t, f, x)
               \/ \E kind \in {"files", "all", "full"}, files \in SUBSET Files :
                    Reindex(t, kind, files)
    BY <2>2 DEF UploadDocument, Reindex, vectors, CollectionHolds, CollectionEmpty
  <2>3. CASE \E t \in Actors : Work(t)
    <3>1. PICK t \in Actors : Work(t)
      BY <2>3
    <3>2. ASSUME UNCHANGED <<collection, copies, raw>> PROVE CollectionEmpty'
      BY <3>2 DEF CollectionHolds, CollectionEmpty
    <3>3. CASE DeleteCollection(t)
      BY <3>3 DEF DeleteCollection, CollectionEmpty
    <3>4. CASE \E f \in Files : Upsert(t, f)
      <4>1. PICK f \in Files : Upsert(t, f)
        BY <3>4
      <4>2. UNCHANGED <<collection, raw>> /\ copies' \in {copies, [copies EXCEPT ![f] = NoCopies]}
        BY <4>1 DEF Upsert, Decide
      <4> QED
        BY <2>0, <4>2 DEF CollectionHolds, CollectionEmpty, TypeOK
    <3>5. CASE AddVectors(t) \/ TaskFails(t)
      <4>1. PICK part \in SUBSET task[t].batch, reached \in BOOLEAN :
              Add(t, part, reached) /\ (part # {} => reached)
        BY <3>5 DEF AddVectors, TaskFails
      <4>2. part \in SUBSET Files
        BY <2>0 DEF TypeOK, Job
      <4>3. raw' = raw
        BY <3>5 DEF AddVectors, TaskFails, Fails
      <4>4. UNCHANGED <<collection, copies>>
        BY <2>0, <4>1, <4>2, Adds
      <4> QED
        BY <3>2, <4>3, <4>4
    <3>6. CASE ForgetDocstore(t) \/ BuildPipeline(t) \/ Read(t) \/ RunPipeline(t)
               \/ RecordHashes(t) \/ OpenDocstoreFile(t) \/ PersistDocstore(t)
               \/ CollectionGone(t)
      BY <3>2, <3>6 DEF ForgetDocstore, BuildPipeline, Read, RunPipeline, RecordHashes,
         OpenDocstoreFile, PersistDocstore, CollectionGone, Fails, vectors
    <3> QED
      BY <3>1, <3>3, <3>4, <3>5, <3>6 DEF Work
  <2> QED
    BY <2>1, <2>2, <2>3 DEF Next
<1> QED
  BY <1>1, <1>2, IndexTypeCorrect, PTL DEF Spec

-------------------------------------------------------------------------------
(* Both stores in step, while one task runs at a time, none is lost and     *)
(* nothing fails from outside.                                              *)

LEMMA HistoryGrows ==
  ASSUME NEW e, NEW occurred, Note(e, occurred)
  PROVE  history \subseteq history' /\ (occurred => e \in history')
BY DEF Note

Mirroring == OneAtATime /\ SavedMirrors /\ ServiceMirrors /\ WorkMirrors

LEMMA MirroringInit == Init => InStep
<1> SUFFICES ASSUME Init PROVE Mirroring
  BY DEF InStep, Mirroring
<1>1. \A t \in Actors : task[t].phase = "new"
  BY IdleIsJob DEF Init
<1>2. OneAtATime /\ ServiceMirrors /\ WorkMirrors
  BY <1>1 DEF Init, OneAtATime, ServiceMirrors, WorkMirrors, Running
<1>3. SavedMirrors
  BY IngestionMarkers DEF Init, SavedMirrors, Mirrors, Known
<1> QED
  BY <1>2, <1>3 DEF Mirroring

(* A step of a task that touches neither store, and is not one of those     *)
(* between which they differ.                                               *)
LEMMA StoresAside ==
  ASSUME Base, Mirroring, NEW t \in Actors, OthersKeep(t),
         process # "down", process' = process,
         UNCHANGED <<copies, stores, docstore, pipeline>>,
         task[t].phase \notin {"forget", "rebuild", "upsert", "added"},
         task'[t].phase \notin {"forget", "rebuild", "added"},
         task'[t].phase = "upsert" =>
           /\ task'[t].store = docstore /\ task'[t].batch = {}
           /\ \A u \in Actors : task[u].phase \notin {"forget", "upsert", "added"},
         collection' = collection,
         Running(t)' => Running(t) \/ \A u \in Actors \ {t} : ~ Running(u)
  PROVE  Mirroring'
<1>1. \A u \in Actors \ {t} : Running(u)' <=> Running(u)
  BY DEF Running, OthersKeep
<1>2. OneAtATime'
  BY <1>1 DEF Mirroring, OneAtATime
<1>3. SavedMirrors'
  BY DEF SavedMirrors
<1>4. ServiceMirrors'
  <2>1. docstore # None
    BY DEF Mirroring, ServiceMirrors
  <2>2. (\A u \in Actors : task'[u].phase # "rebuild") => pipeline' = docstore'
    BY DEF Mirroring, ServiceMirrors, OthersKeep
  <2>3. (\A u \in Actors : task'[u].phase \notin {"forget", "upsert", "added"}) =>
          \A f \in Files : Mirrors(f, stores[docstore][f])'
    BY DEF Mirroring, ServiceMirrors, OthersKeep, Mirrors
  <2> QED
    BY <2>1, <2>2, <2>3 DEF ServiceMirrors
<1>5. WorkMirrors'
  <2> SUFFICES ASSUME NEW u \in Actors
               PROVE  /\ task'[u].phase = "forget" => \A f \in Files : copies'[f] = NoCopies
                      /\ task'[u].phase \in {"upsert", "added"} =>
                           /\ task'[u].store = docstore'
                           /\ \A f \in Files : Mirrors(f, Indexed(u, f))'
                      /\ task'[u].phase = "upsert" /\ collection' = "missing" =>
                           \A f \in task'[u].batch : stores'[docstore'][f] = NoHash
    BY DEF WorkMirrors
  <2>1. CASE u = t
    <3>1. ASSUME task'[t].phase = "upsert" PROVE \A f \in Files : Mirrors(f, stores[docstore][f])
      BY <3>1 DEF Mirroring, ServiceMirrors
    <3> QED
      BY <2>1, <3>1 DEF Mirrors, Indexed
  <2>2. CASE u # t
    <3>1. task'[u] = task[u]
      BY <2>2 DEF OthersKeep
    <3> QED
      BY <3>1 DEF Mirroring, WorkMirrors, Mirrors, Indexed
  <2> QED
    BY <2>1, <2>2
<1> QED
  BY <1>2, <1>3, <1>4, <1>5 DEF Mirroring

LEMMA ProcessKeepsMirroring ==
  ASSUME Base, InStep, \/ Start \/ StartWithoutService \/ Build \/ BuildFails
                       \/ BootIndexed \/ Stop \/ NextDay \/ UNCHANGED vars
  PROVE  InStep'
<1>0. TypeOK /\ Served /\ Boot \in Actors /\ None # Torn /\ None \notin Docstore
      /\ Torn \notin Docstore /\ None \notin Actors
  BY IngestionMarkers DEF Base, Actors
<1>1. CASE Start
  <2> SUFFICES ASSUME Clean PROVE Mirroring'
    BY <1>1 DEF InStep, Mirroring, Clean, Start
  <2>1. /\ OthersKeep(Boot)
        /\ task'[Boot] = task[Boot] \/ task'[Boot].phase = "queued"
        /\ process' # "down"
    BY <1>0, <1>1, Starts
  <2>2. \A t \in Actors : ~ Running(t)
    BY <1>0, <1>1 DEF Start, Served, Underway
  <2>3. \A t \in Actors : ~ Running(t)'
    BY <2>1, <2>2 DEF Running, OthersKeep
  <2>4. docstore' = Boot /\ pipeline' = Boot /\ copies' = copies
        /\ \A f \in Files : stores'[Boot][f] = Known(f)
    BY <1>0, <1>1 DEF Start, Known, EmptyDocstore, TypeOK
  <2>5. \A f \in Files : Mirrors(f, Known(f))
    BY <1>1 DEF InStep, SavedMirrors, Start
  <2>6. ServiceMirrors'
    BY <1>0, <2>4, <2>5 DEF ServiceMirrors, Mirrors
  <2>7. OneAtATime' /\ SavedMirrors' /\ WorkMirrors'
    BY <2>1, <2>3 DEF OneAtATime, SavedMirrors, WorkMirrors, Running
  <2> QED
    BY <2>6, <2>7 DEF Mirroring
<1>2. CASE StartWithoutService
  BY <1>2 DEF StartWithoutService, InStep, SavedMirrors, Clean
<1>3. CASE Build \/ BuildFails \/ BootIndexed \/ NextDay \/ UNCHANGED vars
  <2>1. /\ UNCHANGED <<copies, stores, docstore, pipeline, saved, task, history>>
        /\ process' = "down" <=> process = "down"
        /\ collection' \in {collection, "exists"}
    BY <1>3 DEF Build, BuildFails, BootIndexed, NextDay, vars, vectors, service
  <2>2. Clean' <=> Clean
    BY <2>1 DEF Clean
  <2>3. OneAtATime => OneAtATime'
    BY <2>1 DEF OneAtATime, Running
  <2>4. SavedMirrors => SavedMirrors'
    BY <2>1 DEF SavedMirrors, Known, Mirrors
  <2>5. ServiceMirrors => ServiceMirrors'
    BY <2>1 DEF ServiceMirrors, Mirrors
  <2>6. WorkMirrors => WorkMirrors'
    BY <2>1 DEF WorkMirrors, Mirrors, Indexed
  <2> QED
    BY <2>2, <2>3, <2>4, <2>5, <2>6 DEF InStep
<1>4. CASE Stop
  <2> SUFFICES ASSUME Clean' PROVE Mirroring'
    BY DEF InStep, Mirroring
  <2>1. Quiet /\ AllSaved /\ Clean
    BY <1>4, HistoryGrows DEF Stop, Clean, Quiet, Underway
  <2>2. docstore # None /\ \A f \in Files : Mirrors(f, stores[docstore][f])
    <3>1. \A t \in Actors : task[t].phase \notin {"forget", "upsert", "added"}
      BY <2>1 DEF Quiet, Running
    <3> QED
      BY <1>4, <2>1, <3>1 DEF InStep, ServiceMirrors, Stop
  <2>3. stores[docstore] \in Docstore
    BY <1>0, <2>2 DEF TypeOK
  <2>4. saved # Torn /\ \A f \in Files : Known(f) = stores[docstore][f]
    BY <1>0, <2>1, <2>2, <2>3 DEF AllSaved, Known, EmptyDocstore
  <2>5. \A t \in Actors : task'[t].phase \in {"new", "done", "failed", "lost"}
    <3>1. \A t \in Actors :
            IF t # Boot /\ task[t].phase \in {"new", "done", "failed"}
            THEN task'[t] = task[t] ELSE task'[t].phase = "lost"
      BY <1>0, <1>4, Stops
    <3> QED
      BY <3>1
  <2>6. copies' = copies /\ saved' = saved /\ process' = "down"
    BY <1>4 DEF Stop
  <2>7. SavedMirrors'
    BY <2>2, <2>4, <2>6 DEF SavedMirrors, Known, Mirrors
  <2>8. OneAtATime' /\ ServiceMirrors' /\ WorkMirrors'
    BY <2>5, <2>6 DEF OneAtATime, Running, ServiceMirrors, WorkMirrors
  <2> QED
    BY <2>7, <2>8 DEF Mirroring
<1> QED
  BY <1>1, <1>2, <1>3, <1>4

LEMMA RequestKeepsMirroring ==
  ASSUME Base, InStep, NEW t \in Tasks,
         \/ \E f \in Files, x \in Text : UploadDocument(t, f, x)
         \/ \E kind \in {"files", "all", "full"}, files \in SUBSET Files :
              Reindex(t, kind, files)
  PROVE  InStep'
<1> SUFFICES ASSUME Clean' PROVE Mirroring'
  BY DEF InStep, Mirroring
<1>1. t \in Actors /\ TypeOK
  BY DEF Actors, Base
<1>2. PICK kind \in {"upload", "files", "all", "full"}, files \in SUBSET Files :
        /\ task' = [task EXCEPT ![t] = [Idle EXCEPT !.kind = kind, !.files = files,
                                                    !.phase = "queued"]]
        /\ history \subseteq history'
        /\ UNCHANGED <<vectors, service, boot>> /\ process = "up" /\ task[t].phase = "new"
  <2>1. CASE \E f \in Files, x \in Text : UploadDocument(t, f, x)
    <3>1. PICK f \in Files, x \in Text : UploadDocument(t, f, x)
      BY <2>1
    <3>2. history \subseteq history'
      BY <3>1, HistoryGrows DEF UploadDocument
    <3>3. UNCHANGED <<vectors, service, boot>> /\ process = "up" /\ task[t].phase = "new"
      BY <3>1 DEF UploadDocument
    <3>4. task' = [task EXCEPT ![t] = [Idle EXCEPT !.kind = "upload", !.files = {f},
                                                   !.phase = "queued"]]
      BY <3>1 DEF UploadDocument
    <3>5. "upload" \in {"upload", "files", "all", "full"} /\ {f} \in SUBSET Files
      OBVIOUS
    <3> QED
      BY <3>2, <3>3, <3>4, <3>5, Zenon
  <2>2. CASE \E kind \in {"files", "all", "full"}, files \in SUBSET Files :
               Reindex(t, kind, files)
    <3>1. PICK kind \in {"files", "all", "full"}, files \in SUBSET Files :
            Reindex(t, kind, files)
      BY <2>2
    <3>2. history \subseteq history'
      BY <3>1, HistoryGrows DEF Reindex
    <3> QED
      BY <3>1, <3>2 DEF Reindex
  <2> QED
    BY <2>1, <2>2
<1>3. OthersKeep(t) /\ task'[t].phase = "queued"
  BY <1>1, <1>2, Queues
<1>4. Mirroring
  BY <1>2 DEF InStep, Clean, Mirroring
<1> QED
  BY <1>1, <1>2, <1>3, <1>4, StoresAside DEF vectors, service, boot, Running

LEMMA OneCopyAdded ==
  ASSUME NEW h \in Hash
  PROVE  [NoCopies EXCEPT ![h] = @ + 1] = OneCopy(h)
BY DEF NoCopies, OneCopy

LEMMA WorkKeepsMirroring ==
  ASSUME Base, InStep, NEW t \in Actors, Work(t)
  PROVE  InStep'
<1> SUFFICES ASSUME Clean' PROVE Mirroring'
  BY DEF InStep, Mirroring
<1>0. TypeOK /\ Served /\ None \notin Actors /\ task[t] \in Job /\ NoHash \notin Hash
  BY IngestionMarkers DEF Base, TypeOK
<1>01. Clean
  <2>1. history \subseteq history'
    BY HistoryGrows DEF Work, DeleteCollection, ForgetDocstore, BuildPipeline, Read,
       RunPipeline, Upsert, Decide, AddVectors, RecordHashes, OpenDocstoreFile,
       PersistDocstore, TaskFails, CollectionGone
  <2> QED
    BY <2>1 DEF Clean
<1>02. Mirroring /\ OneAtATime /\ ServiceMirrors /\ WorkMirrors
  BY <1>01 DEF InStep, Mirroring
<1>03. Underway(t) /\ process' = process
  BY DEF Work, DeleteCollection, ForgetDocstore, BuildPipeline, Read,
     RunPipeline, Upsert, Decide, AddVectors, RecordHashes, OpenDocstoreFile,
     PersistDocstore, TaskFails, CollectionGone, Fails, Underway, Running, boot
<1>04. docstore \in Actors /\ process # "down"
  BY <1>0, <1>03 DEF TypeOK, Served
<1>05. Running(t) => \A u \in Actors \ {t} : ~ Running(u)
  BY <1>02 DEF OneAtATime
<1>06. ASSUME NEW phase \in Phases, Enter(t, phase)
       PROVE  /\ OthersKeep(t) /\ KeepsRequest(t) /\ KeepsWork(t)
              /\ task'[t].phase = phase
  BY <1>0, <1>06, EntersPhase
<1>07. SavedMirrors'
  BY <1>03, <1>04 DEF SavedMirrors
<1>08. ASSUME OthersKeep(t), \A u \in Actors \ {t} : ~ Running(u)
       PROVE  OneAtATime' /\ \A u \in Actors \ {t} : ~ Running(u)'
  BY <1>08 DEF OneAtATime, OthersKeep, Running
<1>1. CASE DeleteCollection(t)
  <2>1. \A u \in Actors \ {t} : ~ Running(u)
    BY <1>1, HistoryGrows DEF DeleteCollection, Overlapping, Clean
  <2>2. OthersKeep(t) /\ task'[t].phase = "forget"
    BY <1>1, <1>06 DEF DeleteCollection, Phases
  <2>3. OneAtATime' /\ \A u \in Actors \ {t} : ~ Running(u)'
    BY <1>08, <2>1, <2>2
  <2>4. UNCHANGED service /\ \A f \in Files : copies'[f] = NoCopies
    BY <1>1 DEF DeleteCollection
  <2>5. pipeline = docstore
    <3>1. \A u \in Actors : task[u].phase # "rebuild"
      BY <1>1, <2>1 DEF DeleteCollection, Running
    <3> QED
      BY <1>02, <1>04, <3>1 DEF ServiceMirrors
  <2>6. ServiceMirrors'
    BY <1>0, <1>04, <2>2, <2>4, <2>5 DEF ServiceMirrors, service
  <2>7. WorkMirrors'
    BY <2>2, <2>3, <2>4 DEF WorkMirrors, Running
  <2> QED
    BY <1>07, <2>3, <2>6, <2>7 DEF Mirroring
<1>2. CASE ForgetDocstore(t)
  <2>1. Running(t) /\ task[t].phase = "forget"
    BY <1>2 DEF ForgetDocstore, Running
  <2>2. OthersKeep(t) /\ task'[t].phase = "rebuild"
    BY <1>2, <1>06 DEF ForgetDocstore, Phases
  <2>3. OneAtATime' /\ \A u \in Actors \ {t} : ~ Running(u)'
    BY <1>05, <1>08, <2>1, <2>2
  <2>4. docstore' = t /\ stores'[t] = EmptyDocstore /\ copies' = copies
    BY <1>0, <1>2 DEF ForgetDocstore, vectors, TypeOK
  <2>5. \A f \in Files : copies[f] = NoCopies
    BY <1>02, <2>1 DEF WorkMirrors
  <2>6. ServiceMirrors'
    BY <1>0, <2>2, <2>4, <2>5 DEF ServiceMirrors, Mirrors, EmptyDocstore
  <2>7. WorkMirrors'
    BY <2>2, <2>3 DEF WorkMirrors, Running
  <2> QED
    BY <1>07, <2>3, <2>6, <2>7 DEF Mirroring
<1>3. CASE BuildPipeline(t)
  <2>1. Running(t) /\ task[t].phase = "rebuild"
    BY <1>3 DEF BuildPipeline, Running
  <2>2. OthersKeep(t) /\ task'[t].phase = "start"
    BY <1>3, <1>06 DEF BuildPipeline, Phases
  <2>3. OneAtATime' /\ \A u \in Actors \ {t} : ~ Running(u)'
    BY <1>05, <1>08, <2>1, <2>2
  <2>4. docstore' = docstore /\ pipeline' = docstore /\ stores' = stores /\ copies' = copies
    BY <1>3 DEF BuildPipeline, vectors
  <2>5. \A f \in Files : Mirrors(f, stores[docstore][f])
    <3>1. \A u \in Actors : task[u].phase \notin {"forget", "upsert", "added"}
      BY <1>05, <2>1 DEF Running
    <3> QED
      BY <1>02, <1>04, <3>1 DEF ServiceMirrors
  <2>6. ServiceMirrors'
    BY <1>0, <1>04, <2>4, <2>5 DEF ServiceMirrors, Mirrors
  <2>7. WorkMirrors'
    BY <2>2, <2>3 DEF WorkMirrors, Running
  <2> QED
    BY <1>07, <2>3, <2>6, <2>7 DEF Mirroring
<1>4. CASE Read(t)
  <2>1. \A u \in Actors \ {t} : ~ Running(u)
    BY <1>4, HistoryGrows DEF Read, Overlapping, Clean
  <2>2. OthersKeep(t) /\ task'[t].phase \in {"read", "failed", "done"}
    BY <1>0, <1>4, Reads
  <2>3. task[t].phase \in {"queued", "start"}
        /\ UNCHANGED <<collection, copies, stores, docstore, pipeline>>
    BY <1>4 DEF Read, vectors, service
  <2> QED
    BY <1>02, <1>03, <1>04, <2>1, <2>2, <2>3, StoresAside
<1>5. CASE RunPipeline(t)
  <2>1. OthersKeep(t) /\ task'[t].phase = "upsert" /\ task'[t].store = pipeline
        /\ task'[t].batch = task[t].batch
    BY <1>0, <1>5, RunsPipeline
  <2>2. task[t].phase = "read" /\ Running(t)
        /\ UNCHANGED <<collection, copies, stores, docstore, pipeline>>
    BY <1>5 DEF RunPipeline, vectors, service, Running
  <2>3. task[t].batch = {}
    BY <1>0, <2>2 DEF Served
  <2>4. pipeline = docstore
    <3>1. \A u \in Actors : task[u].phase # "rebuild"
      BY <1>05, <2>2 DEF Running
    <3> QED
      BY <1>02, <1>04, <3>1 DEF ServiceMirrors
  <2>5. \A u \in Actors : task[u].phase \notin {"forget", "upsert", "added"}
    BY <1>05, <2>2 DEF Running
  <2> QED
    BY <1>02, <1>03, <1>04, <2>1, <2>2, <2>3, <2>4, <2>5, StoresAside
<1>6. CASE \E f \in Files : Upsert(t, f)
  <2>0. PICK f \in Files : Upsert(t, f)
    BY <1>6
  <2>1. /\ OthersKeep(t)
        /\ task[t].phase = "upsert" /\ task'[t].phase = "upsert"
        /\ task'[t].store = task[t].store /\ task'[t].docs = task[t].docs
        /\ task'[t].batch = IF Same(t, f) THEN task[t].batch ELSE task[t].batch \cup {f}
        /\ UNCHANGED <<collection, service>>
    BY <1>0, <2>0, Upserts
  <2>2. task[t].store = docstore /\ docstore' = docstore /\ pipeline' = pipeline
        /\ stores' = stores
    BY <1>02, <2>1 DEF WorkMirrors, service
  <2>3. Running(t) /\ \A u \in Actors \ {t} : ~ Running(u)
    BY <1>05, <2>1 DEF Running
  <2>4. OneAtATime' /\ \A u \in Actors \ {t} : ~ Running(u)'
    BY <1>08, <2>1, <2>3
  <2>5. \A g \in Files : Mirrors(g, Indexed(t, g))
    BY <1>02, <2>1 DEF WorkMirrors
  <2>6. copies \in [Files -> [Hash -> Nat]]
        /\ copies' = IF Changed(t, f) THEN [copies EXCEPT ![f] = NoCopies] ELSE copies
    BY <1>0, <2>0 DEF TypeOK, Upsert
  <2>7. ASSUME NEW g \in Files PROVE Mirrors(g, Indexed(t, g))'
    <3>1. Indexed(t, g)' = IF g \in task'[t].batch THEN NoHash ELSE stores[docstore][g]
      BY <2>1, <2>2 DEF Indexed
    <3>2. Indexed(t, g) = IF g \in task[t].batch THEN NoHash ELSE stores[docstore][g]
      BY <2>1 DEF Indexed
    <3>3. CASE g # f
      BY <2>1, <2>5, <2>6, <3>1, <3>2, <3>3 DEF Mirrors
    <3>4. CASE g = f /\ Changed(t, f)
      <4>1. copies'[f] = NoCopies
        BY <2>6, <3>4
      <4>2. g \in task'[t].batch
        BY <2>1, <3>4 DEF Changed, Same
      <4> QED
        BY <3>1, <3>4, <4>1, <4>2 DEF Mirrors
    <3>5. CASE g = f /\ ~ Changed(t, f)
      <4>1. copies' = copies
        BY <2>6, <3>5
      <4>2. Same(t, f) \/ stores[docstore][f] = NoHash
        BY <2>2, <3>5 DEF Changed, Same
      <4>3. Indexed(t, g)' = Indexed(t, g)
        BY <2>1, <3>1, <3>2, <3>5, <4>2
      <4> QED
        BY <2>5, <4>1, <4>3 DEF Mirrors
    <3> QED
      BY <3>3, <3>4, <3>5
  <2>8. ServiceMirrors'
    <3>1. pipeline = docstore
      <4>1. \A u \in Actors : task[u].phase # "rebuild"
        BY <2>1, <2>3 DEF Running
      <4> QED
        BY <1>02, <1>04, <4>1 DEF ServiceMirrors
    <3> QED
      BY <1>0, <1>04, <2>1, <2>2, <3>1 DEF ServiceMirrors
  <2>9. WorkMirrors'
    <3>1. ASSUME collection = "missing", NEW g \in task'[t].batch
          PROVE  stores[docstore][g] = NoHash
      <4>1. CASE g \in task[t].batch
        BY <1>02, <2>1, <3>1, <4>1 DEF WorkMirrors
      <4>2. CASE g \notin task[t].batch
        <5>1. g = f /\ ~ Same(t, f) /\ ~ Changed(t, f)
          BY <2>0, <2>1, <3>1, <4>2 DEF Upsert
        <5> QED
          BY <2>2, <5>1 DEF Same, Changed
      <4> QED
        BY <4>1, <4>2
    <3>2. \A u \in Actors : task'[u].phase \in {"forget", "upsert", "added"} => u = t
      BY <2>4 DEF Running
    <3> QED
      BY <2>1, <2>2, <2>7, <3>1, <3>2 DEF WorkMirrors
  <2> QED
    BY <1>07, <2>4, <2>8, <2>9 DEF Mirroring
<1>7. CASE AddVectors(t)
  <2>1. task[t].phase = "upsert" /\ Running(t) /\ UNCHANGED service
        /\ \A f \in Files : copies'[f] =
             IF f \in task[t].batch THEN [copies[f] EXCEPT ![task[t].docs[f]] = @ + 1]
             ELSE copies[f]
    BY <1>7 DEF AddVectors, Add, Running
  <2>2. OthersKeep(t) /\ KeepsWork(t) /\ task'[t].phase = "added"
    BY <1>7, <1>06 DEF AddVectors, Phases
  <2>3. OneAtATime' /\ \A u \in Actors \ {t} : ~ Running(u)'
    BY <1>05, <1>08, <2>1, <2>2
  <2>4. task[t].store = docstore /\ \A f \in Files : Mirrors(f, Indexed(t, f))
    BY <1>02, <2>1 DEF WorkMirrors
  <2>5. pipeline = docstore
    <3>1. \A u \in Actors : task[u].phase # "rebuild"
      BY <1>05, <2>1 DEF Running
    <3> QED
      BY <1>02, <1>04, <3>1 DEF ServiceMirrors
  <2>6. ASSUME NEW f \in Files
        PROVE  Mirrors(f, Indexed(t, f))'
    <3>1. CASE f \in task[t].batch
      <4>1. task[t].docs[f] \in Hash /\ task[t].docs[f] # NoHash
        BY <1>0, <2>1, <3>1 DEF Served, Job, Docstore
      <4>2. copies[f] = NoCopies
        BY <2>1, <2>4, <3>1 DEF Mirrors, Indexed
      <4>3. copies'[f] = [NoCopies EXCEPT ![task[t].docs[f]] = @ + 1]
        BY <2>1, <3>1, <4>2
      <4>4. Indexed(t, f)' = task[t].docs[f]
        BY <2>2, <3>1 DEF Indexed, KeepsWork
      <4> QED
        BY <4>1, <4>3, <4>4, OneCopyAdded DEF Mirrors
    <3>2. CASE f \notin task[t].batch
      <4>1. copies'[f] = copies[f] /\ Indexed(t, f)' = stores[docstore][f]
            /\ Indexed(t, f) = stores[docstore][f]
        BY <2>1, <2>2, <3>2 DEF Indexed, KeepsWork, service
      <4> QED
        BY <2>4, <4>1 DEF Mirrors
    <3> QED
      BY <3>1, <3>2
  <2>7. \A u \in Actors : task'[u].phase \in {"forget", "upsert", "added"} => u = t
    BY <2>3 DEF Running
  <2>8. WorkMirrors'
    BY <2>1, <2>2, <2>4, <2>6, <2>7 DEF WorkMirrors, KeepsWork, service
  <2>9. ServiceMirrors'
    BY <1>0, <1>04, <2>1, <2>2, <2>5 DEF ServiceMirrors, service
  <2> QED
    BY <1>07, <2>3, <2>8, <2>9 DEF Mirroring
<1>8. CASE RecordHashes(t)
  <2>1. task[t].phase = "added" /\ Running(t) /\ UNCHANGED <<vectors, docstore, pipeline>>
    BY <1>8 DEF RecordHashes, Running
  <2>2. OthersKeep(t) /\ task'[t].phase = "recorded"
    BY <1>8, <1>06 DEF RecordHashes, Phases
  <2>3. OneAtATime' /\ \A u \in Actors \ {t} : ~ Running(u)'
    BY <1>05, <1>08, <2>1, <2>2
  <2>4. task[t].store = docstore
    BY <1>02, <2>1 DEF WorkMirrors
  <2>5. \A f \in Files : stores'[docstore][f] =
          IF f \in task[t].batch THEN task[t].docs[f] ELSE stores[docstore][f]
    BY <1>0, <1>04, <1>8, <2>4 DEF RecordHashes, TypeOK
  <2>6. \A f \in Files : Mirrors(f, stores[docstore][f])'
    BY <1>02, <2>1, <2>5 DEF WorkMirrors, Mirrors, Indexed, vectors
  <2>7. pipeline = docstore
    <3>1. \A u \in Actors : task[u].phase # "rebuild"
      BY <1>05, <2>1 DEF Running
    <3> QED
      BY <1>02, <1>04, <3>1 DEF ServiceMirrors
  <2>8. ServiceMirrors'
    BY <1>0, <1>04, <2>1, <2>6, <2>7 DEF ServiceMirrors
  <2>9. WorkMirrors'
    BY <2>2, <2>3 DEF WorkMirrors, Running
  <2> QED
    BY <1>07, <2>3, <2>8, <2>9 DEF Mirroring
<1>9. CASE OpenDocstoreFile(t) \/ PersistDocstore(t)
  <2>1. PICK phase \in {"saving", "done"} : Enter(t, phase)
    BY <1>9 DEF OpenDocstoreFile, PersistDocstore
  <2>2. OthersKeep(t) /\ task'[t].phase = phase
    BY <1>06, <2>1 DEF Phases
  <2>3. task[t].phase \in {"recorded", "saving"} /\ Running(t)
        /\ UNCHANGED <<collection, copies, stores, docstore, pipeline>>
    BY <1>9 DEF OpenDocstoreFile, PersistDocstore, vectors, Running
  <2> QED
    BY <1>02, <1>03, <1>04, <2>2, <2>3, StoresAside
<1>10. CASE CollectionGone(t)
  <2>1. task[t].phase = "upsert" /\ Running(t) /\ collection = "missing"
        /\ UNCHANGED <<copies, service>>
    BY <1>10 DEF CollectionGone, Fails, Running
  <2>2. OthersKeep(t) /\ task'[t].phase = "failed"
    BY <1>0, <1>10, FailsAside DEF CollectionGone
  <2>3. OneAtATime' /\ \A u \in Actors \ {t} : ~ Running(u)'
    BY <1>05, <1>08, <2>1, <2>2
  <2>4. ASSUME NEW f \in Files PROVE Mirrors(f, stores[docstore][f])'
    <3>1. Indexed(t, f) = stores[docstore][f] /\ Mirrors(f, Indexed(t, f))
      BY <1>02, <2>1 DEF WorkMirrors, Indexed
    <3> QED
      BY <2>1, <3>1 DEF Mirrors, service
  <2>5. pipeline = docstore
    <3>1. \A u \in Actors : task[u].phase # "rebuild"
      BY <1>05, <2>1 DEF Running
    <3> QED
      BY <1>02, <1>04, <3>1 DEF ServiceMirrors
  <2>6. ServiceMirrors'
    BY <1>0, <1>04, <2>1, <2>4, <2>5 DEF ServiceMirrors, service
  <2>7. WorkMirrors'
    BY <2>2, <2>3 DEF WorkMirrors, Running
  <2> QED
    BY <1>07, <2>3, <2>6, <2>7 DEF Mirroring
<1>11. ~ TaskFails(t)
  BY DEF TaskFails, Note, Clean
<1> QED
  BY <1>1, <1>2, <1>3, <1>4, <1>5, <1>6, <1>7, <1>8, <1>9, <1>10, <1>11 DEF Work

(* As long as tasks do not overlap, nothing is lost and nothing fails from  *)
(* outside.                                                                 *)
THEOREM StoresInStep == Spec => [](Base /\ InStep)
<1>1. Base /\ InStep /\ [Next]_vars => InStep'
  BY ProcessKeepsMirroring, RequestKeepsMirroring, WorkKeepsMirroring DEF Next
<1> QED
  BY <1>1, MirroringInit, IndexTypeCorrect, PTL DEF Spec

(* Between tasks the collection holds, of every file, exactly the version   *)
(* the docstore knows.                                                      *)
THEOREM CollectionMirrors == Spec => []MirrorsDocstore
<1>1. Base /\ InStep => MirrorsDocstore
  <2> SUFFICES ASSUME Base, InStep, Quiet, docstore # None, Clean, NEW f \in Files
               PROVE  Mirrors(f, stores[docstore][f])
    BY DEF MirrorsDocstore
  <2>1. process # "down"
    BY DEF Base, Served
  <2>2. \A t \in Actors : task[t].phase \notin {"forget", "upsert", "added"}
    BY DEF Quiet, Running
  <2> QED
    BY <2>1, <2>2 DEF InStep, ServiceMirrors
<1> QED
  BY <1>1, StoresInStep, PTL

(* A document is skipped as unchanged only when this version of it can be   *)
(* found.                                                                   *)
THEOREM SkippedAreIndexed == Spec => SkippedIsIndexedAlone
<1>1. Base /\ InStep /\ [Next]_vars =>
        [Clean => SkipsOnlyIndexed]_vars
  <2> SUFFICES ASSUME Base, InStep, Next, Clean, NEW t \in Actors, NEW f \in Files,
                      Skipped(t, f)
               PROVE  Searchable(f, task[t].docs[f])
    BY DEF SkipsOnlyIndexed
  <2>0. TypeOK /\ Served /\ task[t].phase = "upsert" /\ f \in task[t].todo
        /\ task'[t].phase = "upsert" /\ f \notin task'[t].todo \cup task'[t].batch
    BY DEF Base, Skipped
  <2>1. task'[t] # task[t]
    BY <2>0
  <2>2. ~ (Start \/ StartWithoutService \/ BootIndexed \/ Build \/ BuildFails \/ Stop \/ NextDay)
    <3>1. ASSUME Start PROVE FALSE
      BY <2>0, <2>1, <3>1, Starts DEF OthersKeep
    <3>2. ASSUME Stop PROVE FALSE
      <4>1. IF t # Boot /\ task[t].phase \in {"new", "done", "failed"}
            THEN task'[t] = task[t] ELSE task'[t].phase = "lost"
        BY <2>0, <3>2, Stops
      <4> QED
        BY <2>0, <4>1
    <3> QED
      BY <2>1, <3>1, <3>2 DEF StartWithoutService, BootIndexed, Build, BuildFails, NextDay
  <2>3. ~ \E u \in Tasks :
           \/ \E g \in Files, x \in Text : UploadDocument(u, g, x)
           \/ \E kind \in {"files", "all", "full"}, files \in SUBSET Files :
                Reindex(u, kind, files)
    <3> SUFFICES ASSUME NEW u \in Tasks,
                        \/ \E g \in Files, x \in Text : UploadDocument(u, g, x)
                        \/ \E kind \in {"files", "all", "full"}, files \in SUBSET Files :
                             Reindex(u, kind, files)
                 PROVE  FALSE
      OBVIOUS
    <3>1. u \in Actors /\ task[u].phase = "new"
      BY DEF Actors, UploadDocument, Reindex
    <3>2. OthersKeep(u)
      BY <2>0, <3>1 DEF UploadDocument, Reindex, OthersKeep, TypeOK
    <3> QED
      BY <2>0, <2>1, <3>1, <3>2 DEF OthersKeep
  <2>4. PICK u \in Actors : Work(u)
    BY <2>2, <2>3 DEF Next
  <2>5. PICK g \in Files : Upsert(u, g)
    <3>1. ASSUME NEW v \in Actors, NEW phase \in Phases \ {"upsert"}, Enter(v, phase)
          PROVE  FALSE
      BY <2>0, <2>1, <3>1, EntersPhase DEF OthersKeep
    <3>2. ~ Read(u)
      BY <2>0, <2>1, Reads DEF OthersKeep
    <3>3. ~ RunPipeline(u)
      BY <2>0, <2>1, RunsPipeline DEF OthersKeep, RunPipeline
    <3> QED
      BY <2>4, <3>1, <3>2, <3>3 DEF Work, DeleteCollection, ForgetDocstore, BuildPipeline,
         AddVectors, RecordHashes, OpenDocstoreFile, PersistDocstore, TaskFails,
         CollectionGone, Fails, Phases
  <2>6. /\ u = t /\ g = f
        /\ Same(t, f) /\ f \notin task[t].batch
    <3>1. u = t
      <4>1. OthersKeep(u)
        BY <2>0, <2>5, Upserts
      <4>2. ASSUME u # t PROVE task'[t] = task[t]
        BY <4>1, <4>2 DEF OthersKeep
      <4> QED
        BY <2>1, <4>2
    <3>2. /\ task'[t].todo = task[t].todo \ {g}
          /\ task'[t].batch = IF Same(t, g) THEN task[t].batch ELSE task[t].batch \cup {g}
      BY <2>0, <2>5, <3>1, Upserts
    <3> QED
      BY <2>0, <3>1, <3>2
  <2>7. task[t].store = docstore /\ Mirrors(f, stores[docstore][f])
    <3>1. WorkMirrors
      BY DEF InStep
    <3> QED
      BY <2>0, <2>6, <3>1 DEF WorkMirrors, Indexed
  <2>8. task[t].docs[f] # NoHash /\ task[t].docs[f] \in Hash
    BY <2>0 DEF Served, TypeOK, Job, Docstore
  <2> QED
    BY <2>6, <2>7, <2>8 DEF Same, Mirrors, OneCopy, Searchable
<1> QED
  BY <1>1, StoresInStep, PTL DEF Spec, SkippedIsIndexedAlone

-------------------------------------------------------------------------------
(* No file without vectors, however incremental runs overlap.               *)

Keeping ==
  OneDocstore /\ HashesCovered /\ CollectionCovered /\ SavedCovered /\ CorpusCovered

LEMMA KeepingInit == Init => KeepsFiles
<1> SUFFICES ASSUME Init PROVE Keeping
  BY DEF KeepsFiles, Keeping
<1>1. Boot \in Actors /\ None # Torn
  BY IngestionMarkers DEF Actors
<1>2. \A t \in Actors : task[t].phase = "new" /\ task[t].kind = "all"
  BY IdleIsJob DEF Init
<1>3. \A f \in Files : stores[Boot][f] = NoHash
  BY <1>1 DEF Init, EmptyDocstore
<1> QED
  BY <1>1, <1>2, <1>3 DEF Init, Keeping, OneDocstore, HashesCovered, CollectionCovered,
     SavedCovered, CorpusCovered, CollectionEmpty

(* What has vectors, or is in a batch, stays so while copies and batches    *)
(* only grow.                                                               *)
LEMMA CoveredGrows ==
  ASSUME NEW f \in Files, Covered(f), copies'[f] = copies[f],
         \A u \in Actors :
           task[u].phase = "upsert" /\ f \in task[u].batch =>
             task'[u].phase = "upsert" /\ f \in task'[u].batch
  PROVE  Covered(f)'
BY DEF Covered, Found, Searchable

LEMMA AddedIsFound ==
  ASSUME Base, NEW t \in Actors, AddVectors(t), NEW f \in task[t].batch
  PROVE  Found(f)'
<1>1. task[t].docs[f] \in Hash /\ f \in Files /\ copies[f] \in [Hash -> Nat]
  <2>1. task[t] \in Job /\ task[t].docs[f] # NoHash
    BY DEF Base, TypeOK, Served, AddVectors
  <2> QED
    BY <2>1 DEF Job, Docstore, Base, TypeOK
<1>2. copies'[f] = [copies[f] EXCEPT ![task[t].docs[f]] = @ + 1]
  BY <1>1 DEF AddVectors, Add
<1>3. copies'[f][task[t].docs[f]] = copies[f][task[t].docs[f]] + 1
      /\ copies[f][task[t].docs[f]] \in Nat
  BY <1>1, <1>2
<1>4. copies'[f][task[t].docs[f]] > 0
  BY <1>3
<1> QED
  BY <1>1, <1>4 DEF Found, Searchable

LEMMA ProcessKeepsFiles ==
  ASSUME Base, CollectionHolds, KeepsFiles,
                           \/ Start \/ StartWithoutService \/ Build \/ BuildFails
                           \/ BootIndexed \/ Stop \/ NextDay \/ UNCHANGED vars
  PROVE  KeepsFiles'
<1> SUFFICES ASSUME Regular' PROVE Keeping'
  BY DEF KeepsFiles, Keeping
<1>0. TypeOK /\ Served /\ Boot \in Actors /\ None # Torn /\ None \notin Docstore
      /\ Torn \notin Docstore /\ None \notin Actors
  BY IngestionMarkers DEF Base, Actors
<1>01. Keeping
  <2>1. history \subseteq history'
    BY HistoryGrows DEF Start, StartWithoutService, Build, BuildFails, BootIndexed,
       Stop, NextDay, vars
  <2> QED
    BY <2>1 DEF Regular, KeepsFiles, Keeping
<1>1. CASE Start
  <2>1. /\ OthersKeep(Boot)
        /\ \/ task'[Boot] = task[Boot]
           \/ /\ task'[Boot].phase = "queued" /\ task'[Boot].kind = "all"
              /\ task'[Boot].files = {}
        /\ task'[Boot].phase = "queued" \/ ~ CollectionEmpty
        /\ process' # "down"
    BY <1>0, <1>1, Starts
  <2>2. \A t \in Actors : ~ Underway(t)
    BY <1>0, <1>1 DEF Start, Served
  <2>3. docstore' = Boot /\ pipeline' = Boot /\ copies' = copies /\ saved' = saved
        /\ disk' = disk /\ \A f \in Files : stores'[Boot][f] = Known(f)
    BY <1>0, <1>1 DEF Start, corpus, Known, EmptyDocstore, TypeOK
  <2>4. \A t \in Actors : task'[t].phase \notin {"upsert", "added", "read", "saving"}
    BY <2>1, <2>2 DEF Underway, Running, OthersKeep
  <2>5. OneDocstore'
    BY <1>01, <2>1, <2>3, <2>4 DEF Keeping, OneDocstore, OthersKeep
  <2>6. ASSUME NEW f \in Files, Known(f) # NoHash PROVE Covered(f)'
    <3>1. Found(f)
      BY <1>01, <1>1, <2>6 DEF Known, Keeping, SavedCovered, Start
    <3> QED
      BY <2>3, <3>1 DEF Covered, Found, Searchable
  <2>7. HashesCovered'
    <3>1. \A f \in Files : stores'[Boot][f] # NoHash => Covered(f)'
      BY <2>3, <2>6
    <3> QED
      BY <2>4, <3>1 DEF HashesCovered
  <2>8. SavedCovered'
    BY <1>1, <2>1, <2>3 DEF SavedCovered, Start
  <2>9. CorpusCovered'
    <3>1. CASE ~ CollectionEmpty
      <4>1. \A f \in Corpus : Found(f)
        BY <1>01, <1>1, <3>1 DEF Keeping, CorpusCovered, Start
      <4>2. Corpus' = Corpus /\ \A f \in Corpus : Covered(f)'
        BY <2>3, <4>1 DEF Corpus, Covered, Found, Searchable
      <4> QED
        BY <2>1, <4>2 DEF CorpusCovered
    <3>2. CASE task'[Boot].phase = "queued"
      <4>1. \A f \in Corpus' : f \in Asked(Boot)'
        BY <1>0, <1>1, <2>1, <3>2 DEF Asked, Served, OthersKeep, Start
      <4> QED
        BY <1>0, <2>1, <3>2, <4>1 DEF CorpusCovered, Expected
    <3> QED
      BY <2>1, <3>1, <3>2
  <2>10. CollectionCovered'
    <3>1. collection' = collection /\ initialized' = (collection = "exists")
      BY <1>1 DEF Start
    <3>2. ASSUME collection = "missing", NEW f \in Files PROVE Known(f) = NoHash
      <4>1. copies[f] = NoCopies
        BY <3>2 DEF CollectionHolds, CollectionEmpty
      <4>2. ~ Found(f)
        BY <4>1 DEF Found, Searchable, NoCopies
      <4> QED
        BY <1>01, <1>1, <4>2 DEF Known, Keeping, SavedCovered, Start
    <3> QED
      BY <2>3, <2>4, <3>1, <3>2 DEF CollectionCovered
  <2> QED
    BY <2>5, <2>7, <2>8, <2>9, <2>10 DEF Keeping
<1>2. CASE StartWithoutService
  <2>1. \E t \in Actors : task[t].phase = "saving"
    BY <1>01, <1>2 DEF StartWithoutService, Keeping, SavedCovered
  <2> QED
    BY <1>0, <1>2, <2>1 DEF StartWithoutService, Served, Underway, Running
<1>3. CASE Build \/ BuildFails \/ BootIndexed \/ NextDay \/ UNCHANGED vars
  <2>1. /\ UNCHANGED <<copies, stores, docstore, pipeline, saved, task, disk, initialized>>
        /\ process' = "down" <=> process = "down"
        /\ process = "down" => raw' = raw
        /\ collection' \in {collection, "exists"}
    BY <1>3 DEF Build, BuildFails, BootIndexed, NextDay, vars, vectors, service, corpus
  <2>2. \A f \in Files : (Found(f)' <=> Found(f)) /\ (Covered(f)' <=> Covered(f))
                         /\ (Expected(f)' <=> Expected(f))
    BY <2>1 DEF Covered, Found, Searchable, Expected, Asked, Corpus
  <2>3. Corpus' = Corpus /\ Corpus \subseteq Files
    BY <2>1 DEF Corpus
  <2>4. OneDocstore' /\ CollectionCovered'
    BY <1>01, <2>1 DEF Keeping, OneDocstore, CollectionCovered
  <2>5. HashesCovered' /\ SavedCovered'
    <3>1. \A t \in Actors : task[t].batch \subseteq Files
      BY <1>0 DEF TypeOK, Job
    <3> QED
      BY <1>01, <2>1, <2>2, <3>1 DEF Keeping, HashesCovered, SavedCovered
  <2>6. CorpusCovered'
    <3>1. process = "down" => (CollectionEmpty' <=> CollectionEmpty)
      BY <2>1 DEF CollectionEmpty
    <3> QED
      BY <1>01, <2>1, <2>2, <2>3, <3>1 DEF Keeping, CorpusCovered
  <2> QED
    BY <2>4, <2>5, <2>6 DEF Keeping
<1>4. CASE Stop
  <2>1. (\A t \in Actors : ~ Underway(t)) /\ AllSaved
    <3>1. "lost" \notin history'
      BY DEF Regular
    <3>2. Note("lost", (\E t \in Actors : Underway(t)) \/ ~ AllSaved)
      BY <1>4 DEF Stop
    <3> QED
      BY <3>1, <3>2 DEF Note
  <2>11. \A t \in Actors : task[t].phase \notin {"queued", "read", "upsert", "added", "saving"}
    BY <2>1 DEF Underway, Running
  <2>2. \A t \in Actors :
          IF t # Boot /\ task[t].phase \in {"new", "done", "failed"}
          THEN task'[t] = task[t] ELSE task'[t].phase = "lost" /\ task'[t].kind = "all"
    BY <1>0, <1>4, Stops
  <2>3. /\ docstore' = None /\ pipeline' = None /\ process' = "down" /\ copies' = copies
        /\ saved' = saved /\ initialized' = FALSE
        /\ disk' = disk /\ \A f \in Files : stores'[Boot][f] = NoHash
    BY <1>0, <1>4 DEF Stop, EmptyDocstore, corpus
  <2>4. docstore = Boot
    BY <1>01, <1>4 DEF Keeping, OneDocstore, Stop
  <2>5. OneDocstore'
    BY <1>0, <1>01, <2>2, <2>3 DEF Keeping, OneDocstore
  <2>6. HashesCovered' /\ CollectionCovered'
    BY <1>0, <2>2, <2>3 DEF HashesCovered, CollectionCovered
  <2>8. CorpusCovered'
    <3>1. \A f \in Corpus : Covered(f) \/ Expected(f)
      BY <1>01, <1>4 DEF Keeping, CorpusCovered, Stop
    <3>2. \A f \in Corpus : Found(f)
      BY <2>11, <3>1 DEF Covered, Expected
    <3>3. Corpus' = Corpus /\ \A f \in Corpus : Found(f)'
      BY <2>3, <3>2 DEF Corpus, Found, Searchable
    <3> QED
      BY <2>3, <3>3 DEF CorpusCovered
  <2>7. SavedCovered'
    <3>1. saved # Torn
      BY <1>01, <2>11 DEF Keeping, SavedCovered
    <3>2. ASSUME saved # None, NEW f \in Files, saved[f] # NoHash PROVE Found(f)
      <4>1. stores[Boot][f] # NoHash
        BY <1>0, <2>1, <2>4, <3>2 DEF AllSaved
      <4>2. Covered(f)
        BY <1>01, <4>1 DEF Keeping, HashesCovered
      <4> QED
        BY <2>11, <4>2 DEF Covered
    <3> QED
      BY <2>3, <3>1, <3>2 DEF SavedCovered, Found, Searchable
  <2> QED
    BY <2>5, <2>6, <2>7, <2>8 DEF Keeping
<1> QED
  BY <1>1, <1>2, <1>3, <1>4

LEMMA RequestKeepsFiles ==
  ASSUME Base, KeepsFiles, NEW t \in Tasks,
         \/ \E f \in Files, x \in Text : UploadDocument(t, f, x)
         \/ \E kind \in {"files", "all", "full"}, files \in SUBSET Files :
              Reindex(t, kind, files)
  PROVE  KeepsFiles'
<1> SUFFICES ASSUME Regular' PROVE Keeping'
  BY DEF KeepsFiles, Keeping
<1>0. t \in Actors /\ TypeOK /\ Boot \in Actors /\ t # Boot
  BY IngestionConstants DEF Actors, Base
<1>1. \E kind \in {"upload", "files", "all"}, files \in SUBSET Files :
        /\ task' = [task EXCEPT ![t] = [Idle EXCEPT !.kind = kind, !.files = files,
                                                    !.phase = "queued"]]
        /\ history \subseteq history' /\ task[t].phase = "new" /\ process = "up"
        /\ UNCHANGED <<copies, stores, docstore, pipeline, saved, process, collection,
                       initialized>>
        /\ \A g \in Files : disk'[g] = 0 => disk[g] = 0
        /\ \A g \in Files : disk'[g] # 0 => disk[g] # 0 \/ (files = {g} /\ kind = "upload")
  <2>1. CASE \E f \in Files, x \in Text : UploadDocument(t, f, x)
    <3>1. PICK f \in Files, x \in Text : UploadDocument(t, f, x)
      BY <2>1
    <3>2. history \subseteq history'
      BY <3>1, HistoryGrows DEF UploadDocument
    <3>3. UNCHANGED <<copies, stores, docstore, pipeline, saved, process, collection,
                      initialized>>
          /\ process = "up" /\ task[t].phase = "new"
      BY <3>1 DEF UploadDocument, vectors, service, boot
    <3>4. task' = [task EXCEPT ![t] = [Idle EXCEPT !.kind = "upload", !.files = {f},
                                                   !.phase = "queued"]]
      BY <3>1 DEF UploadDocument
    <3>5. "upload" \in {"upload", "files", "all"} /\ {f} \in SUBSET Files
      OBVIOUS
    <3>6. disk' = [disk EXCEPT ![f] = x] /\ x # 0
      <4>1. x # 0
        BY IngestionConstants DEF Text
      <4> QED
        BY <3>1, <4>1 DEF UploadDocument
    <3>7. /\ \A g \in Files : disk'[g] = 0 => disk[g] = 0
          /\ \A g \in Files : disk'[g] # 0 => disk[g] # 0 \/ {f} = {g}
      BY <1>0, <3>6 DEF TypeOK
    <3> QED
      BY <3>2, <3>3, <3>4, <3>5, <3>7, Zenon
  <2>2. CASE \E kind \in {"files", "all", "full"}, files \in SUBSET Files :
               Reindex(t, kind, files)
    <3>1. PICK kind \in {"files", "all", "full"}, files \in SUBSET Files :
            Reindex(t, kind, files)
      BY <2>2
    <3>2. history \subseteq history' /\ kind # "full"
      BY <3>1, HistoryGrows DEF Reindex, Regular
    <3>3. UNCHANGED <<copies, stores, docstore, pipeline, saved, process, disk,
                      collection, initialized>>
          /\ process = "up" /\ task[t].phase = "new"
      BY <3>1 DEF Reindex, vectors, service, boot, corpus
    <3>4. task' = [task EXCEPT ![t] = [Idle EXCEPT !.kind = kind, !.files = files,
                                                   !.phase = "queued"]]
      BY <3>1 DEF Reindex
    <3> QED
      BY <3>2, <3>3, <3>4
  <2> QED
    BY <2>1, <2>2
<1>2. PICK kind \in {"upload", "files", "all"}, files \in SUBSET Files :
        /\ task' = [task EXCEPT ![t] = [Idle EXCEPT !.kind = kind, !.files = files,
                                                    !.phase = "queued"]]
        /\ history \subseteq history' /\ task[t].phase = "new" /\ process = "up"
        /\ UNCHANGED <<copies, stores, docstore, pipeline, saved, process, collection,
                       initialized>>
        /\ \A g \in Files : disk'[g] = 0 => disk[g] = 0
        /\ \A g \in Files : disk'[g] # 0 => disk[g] # 0 \/ (files = {g} /\ kind = "upload")
  BY <1>1
<1>3. /\ OthersKeep(t) /\ task'[t].phase = "queued"
      /\ task'[t].kind = kind /\ task'[t].files = files
  BY <1>0, <1>2, Queues
<1>4. Keeping
  BY <1>2 DEF KeepsFiles, Regular, Keeping
<1>5. \A f \in Files : Covered(f) => Covered(f)'
  BY <1>2, <1>3, CoveredGrows DEF OthersKeep
<1>6. OneDocstore'
  BY <1>2, <1>3, <1>4 DEF Keeping, OneDocstore, OthersKeep
<1>7. HashesCovered'
  <2>1. \A u \in Actors : task[u].batch \subseteq Files
    BY <1>0 DEF TypeOK, Job
  <2>2. \A u \in Actors : task'[u].phase = "added" => task'[u] = task[u]
    BY <1>3 DEF OthersKeep
  <2> QED
    BY <1>2, <1>4, <1>5, <2>1, <2>2 DEF Keeping, HashesCovered
<1>8. SavedCovered'
  <2>1. \A u \in Actors : task[u].phase = "saving" => task'[u] = task[u]
    BY <1>2, <1>3 DEF OthersKeep
  <2> QED
    BY <1>2, <1>4, <2>1 DEF Keeping, SavedCovered
<1>9. CorpusCovered'
  <2> SUFFICES ASSUME NEW f \in Corpus'
               PROVE  Covered(f)' \/ Expected(f)'
    BY <1>2 DEF CorpusCovered
  <2>2. f \in Files /\ (f \in Corpus \/ files = {f})
    BY <1>2 DEF Corpus
  <2>3. CASE files = {f}
    <3>1. f \in Asked(t)'
      BY <1>3, <2>3 DEF Asked
    <3> QED
      BY <1>0, <1>3, <3>1 DEF Expected
  <2>4. CASE f \in Corpus
    <3>1. Covered(f) \/ Expected(f)
      BY <1>2, <1>4, <2>4 DEF Keeping, CorpusCovered
    <3>2. ASSUME Expected(f) PROVE Expected(f)'
      <4>1. PICK u \in Actors :
              \/ task[u].phase = "queued" /\ f \in Asked(u)
              \/ task[u].phase = "read" /\ task[u].docs[f] # NoHash
              \/ task[u].phase = "upsert" /\ f \in task[u].todo
        BY <3>2 DEF Expected
      <4>2. task'[u] = task[u]
        BY <1>2, <1>3, <4>1 DEF OthersKeep
      <4>3. f \in Asked(u) => f \in Asked(u)'
        BY <2>2, <4>2 DEF Asked
      <4> QED
        BY <4>1, <4>2, <4>3 DEF Expected
    <3> QED
      BY <1>5, <2>2, <3>1, <3>2
  <2> QED
    BY <2>2, <2>3, <2>4
<1>10. CollectionCovered'
  BY <1>2, <1>3, <1>4 DEF Keeping, CollectionCovered, OthersKeep
<1> QED
  BY <1>6, <1>7, <1>8, <1>9, <1>10 DEF Keeping

LEMMA WorkKeepsFiles ==
  ASSUME Base, KeepsFiles, NEW t \in Actors, Work(t)
  PROVE  KeepsFiles'
<1> SUFFICES ASSUME Regular' PROVE Keeping'
  BY DEF KeepsFiles, Keeping
<1>0. TypeOK /\ Served /\ None \notin Actors /\ task[t] \in Job /\ NoHash \notin Hash
      /\ Boot \in Actors /\ None # Torn /\ Torn \notin Docstore
  BY IngestionMarkers DEF Base, TypeOK, Actors
<1>01. Regular /\ ~ TaskFails(t)
  <2>1. history \subseteq history'
    BY HistoryGrows DEF Work, DeleteCollection, ForgetDocstore, BuildPipeline, Read,
       RunPipeline, Upsert, Decide, AddVectors, RecordHashes, OpenDocstoreFile,
       PersistDocstore, TaskFails, CollectionGone
  <2>2. TaskFails(t) => "failure" \in history'
    BY DEF TaskFails, Note
  <2>3. "failure" \notin history'
    BY DEF Regular
  <2> QED
    BY <2>1, <2>2, <2>3 DEF Regular
<1>02. Keeping /\ task[t].kind # "full"
  BY <1>01 DEF KeepsFiles, Keeping, OneDocstore
<1>03. Underway(t) /\ process' = process
  BY DEF Work, DeleteCollection, ForgetDocstore, BuildPipeline, Read,
     RunPipeline, Upsert, Decide, AddVectors, RecordHashes, OpenDocstoreFile,
     PersistDocstore, TaskFails, CollectionGone, Fails, Underway, Running, boot
<1>04. docstore = Boot /\ pipeline = Boot /\ process # "down"
  BY <1>0, <1>02, <1>03 DEF Served, Keeping, OneDocstore
<1>05. ~ DeleteCollection(t) /\ ~ ForgetDocstore(t) /\ ~ BuildPipeline(t)
       /\ task[t].phase # "start"
  BY <1>0, <1>02 DEF DeleteCollection, ForgetDocstore, BuildPipeline, Served
<1>06. ASSUME NEW phase \in Phases, Enter(t, phase)
       PROVE  /\ OthersKeep(t) /\ KeepsRequest(t) /\ KeepsWork(t)
              /\ task'[t].phase = phase
  BY <1>0, <1>06, EntersPhase
<1>051. ~ CollectionGone(t)
  <2> SUFFICES ASSUME CollectionGone(t) PROVE FALSE
    OBVIOUS
  <2>1. task[t].phase = "upsert" /\ collection = "missing" /\ task[t].todo \subseteq Files
    BY <1>0 DEF CollectionGone, Job
  <2>2. task[t].store = Boot /\ ~ initialized /\ \A f \in Files : stores[Boot][f] = NoHash
    BY <1>02, <2>1 DEF Keeping, OneDocstore, CollectionCovered
  <2> QED
    BY <2>1, <2>2 DEF CollectionGone, Accepts, Changed
<1>07. disk' = disk /\ docstore' = docstore /\ pipeline' = pipeline
  BY <1>01, <1>05, <1>051 DEF Work, Read, RunPipeline, Upsert, Decide, AddVectors, RecordHashes,
     OpenDocstoreFile, PersistDocstore, corpus, service
<1>08. Corpus' = Corpus /\ Corpus \subseteq Files
  BY <1>07 DEF Corpus
<1>09. ASSUME OthersKeep(t), KeepsRequest(t),
              task'[t].phase \in {"upsert", "added"} => task'[t].store = Boot
       PROVE  OneDocstore'
  BY <1>0, <1>02, <1>03, <1>04, <1>07, <1>09
     DEF Keeping, OneDocstore, OthersKeep, KeepsRequest
<1>010. ASSUME OthersKeep(t), NEW u \in Actors \ {t}, NEW f \in Files
        PROVE  /\ task'[u] = task[u]
               /\ f \in Asked(u) => f \in Asked(u)'
  BY <1>08, <1>010 DEF OthersKeep, Asked
<1>011. ASSUME OthersKeep(t), task[t].phase # "saving", saved' = saved
        PROVE  SavedCovered'
  BY <1>02, <1>03, <1>04, <1>011 DEF Keeping, SavedCovered, OthersKeep
<1>012. \A f \in Corpus : Covered(f) \/ Expected(f)
  BY <1>02, <1>04 DEF Keeping, CorpusCovered
<1>013. ASSUME OthersKeep(t),
               \A f \in Files : Covered(f) => Covered(f)',
               \A f \in Files :
                 \/ task[t].phase = "queued" /\ f \in Asked(t)
                 \/ task[t].phase = "read" /\ task[t].docs[f] # NoHash
                 \/ task[t].phase = "upsert" /\ f \in task[t].todo
                 => Covered(f)' \/ Expected(f)'
        PROVE  CorpusCovered'
  <2> SUFFICES ASSUME NEW f \in Corpus
               PROVE  Covered(f)' \/ Expected(f)'
    BY <1>03, <1>04, <1>08 DEF CorpusCovered
  <2>1. f \in Files /\ (Covered(f) \/ Expected(f))
    BY <1>08, <1>012, <1>013
  <2>2. ASSUME NEW u \in Actors \ {t},
               \/ task[u].phase = "queued" /\ f \in Asked(u)
               \/ task[u].phase = "read" /\ task[u].docs[f] # NoHash
               \/ task[u].phase = "upsert" /\ f \in task[u].todo
        PROVE  Expected(f)'
    BY <1>010, <1>013, <2>1, <2>2 DEF Expected
  <2> QED
    BY <1>013, <2>1, <2>2 DEF Expected
<1>014. ASSUME OthersKeep(t), \A f \in Files : Covered(f) => Covered(f)',
               \A f \in Files : stores'[Boot][f] # NoHash => Covered(f),
               task'[t].phase = "added" => \A f \in task'[t].batch : Covered(f)'
        PROVE  HashesCovered'
  <2>1. ASSUME NEW u \in Actors \ {t}, task'[u].phase = "added", NEW f \in task'[u].batch
        PROVE  Covered(f)'
    <3>1. task'[u] = task[u] /\ f \in Files
      BY <1>0, <1>014, <2>1 DEF OthersKeep, TypeOK, Job
    <3> QED
      BY <1>02, <1>014, <2>1, <3>1 DEF Keeping, HashesCovered
  <2> QED
    BY <1>014, <2>1 DEF HashesCovered
<1>015. \A f \in Files : stores[Boot][f] # NoHash => Covered(f)
  BY <1>02 DEF Keeping, HashesCovered
<1>016. ASSUME OthersKeep(t), UNCHANGED <<collection, initialized, stores>>,
               task'[t].phase # "added"
        PROVE  CollectionCovered'
  BY <1>02, <1>016 DEF Keeping, CollectionCovered, OthersKeep
<1>1. CASE Read(t)
  <2>1. /\ OthersKeep(t) /\ KeepsRequest(t)
        /\ task'[t].phase = IF Asked(t) # {} THEN "read"
                            ELSE IF task[t].files = {} THEN "failed" ELSE "done"
        /\ Asked(t) # {} =>
             \A f \in Files :
               task'[t].docs[f] = IF f \in Asked(t) THEN [text |-> disk[f], day |-> day]
                                  ELSE NoHash
        /\ task' \in [Actors -> Job]
    BY <1>0, <1>1, Reads
  <2>2. task[t].phase = "queued" /\ UNCHANGED <<vectors, stores, saved>> /\ copies' = copies
    BY <1>05, <1>1 DEF Read, vectors, service
  <2>3. ASSUME NEW f \in Files, Covered(f) PROVE Covered(f)'
    BY <2>1, <2>2, <2>3, CoveredGrows DEF OthersKeep
  <2>4. ASSUME NEW f \in Files, f \in Asked(t) PROVE Expected(f)'
    <3>1. task'[t].phase = "read" /\ task'[t].docs[f] = [text |-> disk[f], day |-> day]
      BY <2>1, <2>4
    <3>2. [text |-> disk[f], day |-> day] \in Hash
      <4>1. disk[f] \in 0 .. MaxText /\ disk[f] # 0 /\ day \in 1 .. MaxDay
        BY <1>0, <2>4 DEF Asked, Corpus, TypeOK
      <4>2. disk[f] \in Text
        BY <4>1, IngestionConstants DEF Text
      <4> QED
        BY <4>1, <4>2 DEF Hash
    <3> QED
      BY <1>0, <3>1, <3>2 DEF Expected
  <2>5. OneDocstore' /\ SavedCovered' /\ CollectionCovered'
    BY <1>09, <1>011, <1>016, <2>1, <2>2 DEF vectors
  <2>6. HashesCovered'
    BY <1>014, <1>015, <2>1, <2>2, <2>3
  <2>7. CorpusCovered'
    BY <1>013, <2>1, <2>2, <2>3, <2>4
  <2> QED
    BY <2>5, <2>6, <2>7 DEF Keeping
<1>2. CASE RunPipeline(t)
  <2>1. /\ OthersKeep(t) /\ KeepsRequest(t)
        /\ task'[t].phase = "upsert" /\ task'[t].store = pipeline
        /\ task'[t].todo = {f \in Files : task[t].docs[f] # NoHash}
    BY <1>0, <1>2, RunsPipeline
  <2>2. task[t].phase = "read" /\ UNCHANGED <<vectors, stores, saved>> /\ copies' = copies
    BY <1>2 DEF RunPipeline, vectors, service
  <2>3. ASSUME NEW f \in Files, Covered(f) PROVE Covered(f)'
    BY <2>1, <2>2, <2>3, CoveredGrows DEF OthersKeep
  <2>4. ASSUME NEW f \in Files, task[t].docs[f] # NoHash PROVE Expected(f)'
    BY <2>1, <2>4 DEF Expected
  <2>5. OneDocstore' /\ SavedCovered' /\ CollectionCovered'
    BY <1>04, <1>09, <1>011, <1>016, <2>1, <2>2 DEF vectors
  <2>6. HashesCovered'
    BY <1>014, <1>015, <2>1, <2>2, <2>3
  <2>7. CorpusCovered'
    BY <1>013, <2>1, <2>2, <2>3, <2>4
  <2> QED
    BY <2>5, <2>6, <2>7 DEF Keeping
<1>3. CASE \E f \in Files : Upsert(t, f)
  <2>0. PICK f \in Files : Upsert(t, f)
    BY <1>3
  <2>1. /\ OthersKeep(t) /\ KeepsRequest(t)
        /\ task[t].phase = "upsert" /\ task'[t].phase = "upsert"
        /\ task'[t].store = task[t].store
        /\ f \in task[t].todo /\ task'[t].todo = task[t].todo \ {f}
        /\ task'[t].batch = IF Same(t, f) THEN task[t].batch ELSE task[t].batch \cup {f}
        /\ UNCHANGED <<collection, initialized, service>>
    BY <1>0, <2>0, Upserts
  <2>2. task[t].store = Boot /\ saved' = saved /\ stores' = stores
    BY <1>02, <2>1 DEF Keeping, OneDocstore, service
  <2>3. /\ \A g \in Files \ {f} : copies'[g] = copies[g]
        /\ copies'[f] = copies[f] \/ f \in task'[t].batch
    <3>1. copies' = IF Changed(t, f) THEN [copies EXCEPT ![f] = NoCopies] ELSE copies
      BY <2>0 DEF Upsert
    <3>2. Changed(t, f) => f \in task'[t].batch
      BY <2>1 DEF Changed, Same
    <3> QED
      BY <1>0, <3>1, <3>2 DEF TypeOK
  <2>4. f \in task'[t].batch => Covered(f)'
    BY <2>1 DEF Covered
  <2>5. ASSUME NEW g \in Files, Covered(g) PROVE Covered(g)'
    <3>1. \A u \in Actors : task[u].phase = "upsert" /\ g \in task[u].batch =>
            task'[u].phase = "upsert" /\ g \in task'[u].batch
      BY <2>1 DEF OthersKeep
    <3>2. CASE copies'[g] = copies[g]
      BY <2>5, <3>1, <3>2, CoveredGrows
    <3>3. CASE g = f /\ f \in task'[t].batch
      BY <2>4, <3>3
    <3> QED
      BY <2>3, <3>2, <3>3
  <2>6. ASSUME NEW g \in Files, g \in task[t].todo PROVE Covered(g)' \/ Expected(g)'
    <3>1. CASE g # f
      BY <2>1, <2>6, <3>1 DEF Expected
    <3>2. CASE g = f /\ ~ Same(t, f)
      BY <2>1, <2>4, <3>2
    <3>3. CASE g = f /\ Same(t, f)
      <4>1. stores[Boot][f] # NoHash
        BY <1>0, <2>1, <2>2, <3>3 DEF Served, Same
      <4> QED
        BY <1>015, <2>5, <3>3, <4>1
    <3> QED
      BY <3>1, <3>2, <3>3
  <2>7. OneDocstore' /\ SavedCovered' /\ CollectionCovered'
    BY <1>09, <1>011, <1>016, <2>1, <2>2
  <2>8. HashesCovered'
    BY <1>014, <1>015, <2>1, <2>2, <2>5
  <2>9. CorpusCovered'
    BY <1>013, <2>1, <2>5, <2>6
  <2> QED
    BY <2>7, <2>8, <2>9 DEF Keeping
<1>4. CASE AddVectors(t)
  <2>1. OthersKeep(t) /\ KeepsRequest(t) /\ KeepsWork(t) /\ task'[t].phase = "added"
    BY <1>4, <1>06 DEF AddVectors, Phases
  <2>2. task[t].phase = "upsert" /\ task[t].todo = {} /\ UNCHANGED service
        /\ \A f \in Files \ task[t].batch : copies'[f] = copies[f]
    BY <1>4 DEF AddVectors, Add
  <2>3. \A f \in task[t].batch : Covered(f)'
    BY <1>4, AddedIsFound DEF Covered
  <2>4. ASSUME NEW f \in Files, Covered(f) PROVE Covered(f)'
    <3>1. CASE f \in task[t].batch
      BY <2>3, <3>1
    <3>2. CASE f \notin task[t].batch
      BY <2>1, <2>2, <2>4, <3>2, CoveredGrows DEF OthersKeep
    <3> QED
      BY <3>1, <3>2
  <2>5. task'[t].store = Boot /\ task'[t].batch = task[t].batch
    BY <1>02, <2>1, <2>2 DEF Keeping, OneDocstore, KeepsWork
  <2>6. OneDocstore' /\ SavedCovered'
    BY <1>09, <1>011, <2>1, <2>2, <2>5 DEF service
  <2>7. HashesCovered'
    BY <1>014, <1>015, <2>1, <2>2, <2>3, <2>4, <2>5 DEF service
  <2>8. CorpusCovered'
    BY <1>013, <2>1, <2>2, <2>4
  <2>9. CollectionCovered'
    <3>1. Add(t, task[t].batch, task[t].batch # {})
      BY <1>4 DEF AddVectors
    <3>2. CASE task[t].batch = {}
      BY <1>02, <2>1, <2>2, <2>5, <3>1, <3>2
         DEF Keeping, CollectionCovered, Add, OthersKeep, service
    <3>3. CASE task[t].batch # {}
      BY <3>1, <3>3 DEF CollectionCovered, Add
    <3> QED
      BY <3>2, <3>3
  <2> QED
    BY <2>6, <2>7, <2>8, <2>9 DEF Keeping
<1>5. CASE RecordHashes(t)
  <2>1. OthersKeep(t) /\ KeepsRequest(t) /\ task'[t].phase = "recorded"
    BY <1>5, <1>06 DEF RecordHashes, Phases
  <2>2. task[t].phase = "added" /\ saved' = saved /\ copies' = copies
        /\ UNCHANGED <<collection, initialized>>
    BY <1>5 DEF RecordHashes, vectors
  <2>3. task[t].store = Boot /\ \A f \in task[t].batch : Covered(f)
    BY <1>02, <2>2 DEF Keeping, OneDocstore, HashesCovered
  <2>4. \A f \in Files : stores'[Boot][f] =
          IF f \in task[t].batch THEN task[t].docs[f] ELSE stores[Boot][f]
    BY <1>0, <1>5, <2>3 DEF RecordHashes, TypeOK
  <2>5. ASSUME NEW f \in Files, Covered(f) PROVE Covered(f)'
    BY <2>1, <2>2, <2>5, CoveredGrows DEF OthersKeep
  <2>6. OneDocstore' /\ SavedCovered'
    BY <1>09, <1>011, <2>1, <2>2
  <2>7. HashesCovered'
    BY <1>014, <1>015, <2>1, <2>3, <2>4, <2>5
  <2>8. CorpusCovered'
    BY <1>013, <2>1, <2>2, <2>5
  <2>9. CollectionCovered'
    <3>1. collection = "missing" => task[t].batch = {} /\ ~ initialized
                                    /\ \A f \in Files : stores[Boot][f] = NoHash
      BY <1>02, <2>2 DEF Keeping, CollectionCovered
    <3> QED
      BY <1>02, <2>1, <2>2, <2>4, <3>1 DEF Keeping, CollectionCovered, OthersKeep
  <2> QED
    BY <2>6, <2>7, <2>8, <2>9 DEF Keeping
<1>6. CASE OpenDocstoreFile(t) \/ PersistDocstore(t)
  <2>1. PICK phase \in {"saving", "done"} :
          /\ Enter(t, phase) /\ phase \in Phases
          /\ phase = "done" => saved' = stores[docstore]
    BY <1>6 DEF OpenDocstoreFile, PersistDocstore, Phases
  <2>2. OthersKeep(t) /\ KeepsRequest(t) /\ task'[t].phase = phase
    BY <1>06, <2>1
  <2>3. UNCHANGED <<copies, stores, collection, initialized>>
        /\ task[t].phase \in {"recorded", "saving"}
    BY <1>6 DEF OpenDocstoreFile, PersistDocstore, vectors
  <2>4. ASSUME NEW f \in Files, Covered(f) PROVE Covered(f)'
    BY <2>2, <2>3, <2>4, CoveredGrows DEF OthersKeep
  <2>5. SavedCovered'
    <3>1. stores[docstore] # Torn
      BY <1>0, <1>04 DEF TypeOK
    <3> QED
      BY <1>03, <1>04, <2>1, <2>2, <3>1 DEF SavedCovered
  <2>6. OneDocstore' /\ CollectionCovered'
    BY <1>09, <1>016, <2>2, <2>3
  <2>7. HashesCovered'
    BY <1>014, <1>015, <2>2, <2>3, <2>4
  <2>8. CorpusCovered'
    BY <1>013, <2>2, <2>3, <2>4
  <2> QED
    BY <2>5, <2>6, <2>7, <2>8 DEF Keeping
<1> QED
  BY <1>01, <1>05, <1>051, <1>1, <1>2, <1>3, <1>4, <1>5, <1>6 DEF Work

(* The invariant behind it.                                                 *)
THEOREM FilesCovered == Spec => [](Base /\ KeepsFiles)
<1>1. Base /\ CollectionHolds /\ KeepsFiles /\ [Next]_vars => KeepsFiles'
  BY ProcessKeepsFiles, RequestKeepsFiles, WorkKeepsFiles DEF Next
<1> QED
  BY <1>1, KeepingInit, MissingIsEmpty, PTL DEF Spec

(* However uploads and incremental runs overlap, with restarts between      *)
(* them, no file of the corpus is left without vectors.                     *)
THEOREM FilesStayFound == Spec => []NothingVanishes
<1>1. Base /\ KeepsFiles => NothingVanishes
  <2> SUFFICES ASSUME Base, KeepsFiles, Regular, process = "up",
                      \A t \in Actors : ~ Underway(t), NEW f \in Corpus
               PROVE  Found(f)
    BY DEF NothingVanishes, Regular
  <2>1. Covered(f) \/ Expected(f)
    BY DEF KeepsFiles, CorpusCovered
  <2>2. \A t \in Actors : task[t].phase \notin {"queued", "read", "upsert"}
    BY DEF Underway, Running
  <2> QED
    BY <2>1, <2>2 DEF Covered, Expected
<1> QED
  BY <1>1, FilesCovered, PTL

-------------------------------------------------------------------------------
(* An indexing from nothing that is alone leaves exactly the corpus, or     *)
(* nothing at all.                                                          *)
Healing(t) ==
  /\ AloneFirst(t)
  /\ t = Boot /\ task[t].phase # "failed" => FreshRun(t)
  /\ task[t].kind = "full" /\ task[t].phase # "failed" => FreshRun(t) /\ FullRun(t)
  /\ task[t].kind = "full" /\ task[t].phase = "failed" /\ "failure" \notin history =>
       NothingLeft

FullIsWhole == \A t \in Actors : task[t].kind = "full" => task[t].files = {}

LEMMA HealsParts ==
  HealsAlone <=> FullIsWhole /\ PrimaryFirst /\ \A t \in Actors : alone = t => Healing(t)
BY DEF HealsAlone, FullIsWhole, Healing

LEMMA HealsJoined ==
  ASSUME FullIsWhole', PrimaryFirst', \A t \in Actors : alone' = t => Healing(t)'
  PROVE  HealsAlone'
BY DEF HealsAlone, FullIsWhole, Healing

LEMMA HealsInit == Init => HealsAlone
<1> SUFFICES ASSUME Init PROVE HealsAlone
  OBVIOUS
<1>1. \A t \in Actors : task[t].kind = "all" /\ task[t].phase = "new"
  BY IdleIsJob DEF Init
<1>2. \A t \in Actors : alone # t
  BY IngestionMarkers DEF Init
<1>3. Boot \in Actors
  BY DEF Actors
<1>4. PrimaryFirst
  BY <1>1, <1>3 DEF PrimaryFirst, Underway, Running
<1> QED
  BY <1>1, <1>2, <1>4, HealsParts DEF FullIsWhole

(* What another step does not touch stays as the task left it.              *)
LEMMA RunStays ==
  ASSUME NEW t \in Actors, Healing(t), task'[t] = task[t],
         UNCHANGED <<disk, raw, copies, stores, docstore, pipeline, saved>>,
         history \subseteq history', AloneFirst(t)'
  PROVE  Healing(t)'
<1>1. Snapshot(t) => Snapshot(t)'
  BY DEF Snapshot, Corpus
<1>2. \A f \in Files : Mirrors(f, task[t].docs[f])' <=> Mirrors(f, task[t].docs[f])
  BY DEF Mirrors
<1>3. FromNothing(t)' <=> FromNothing(t)
  BY DEF FromNothing, At, Documents
<1>4. FreshRun(t) => FreshRun(t)'
  BY <1>1, <1>2, <1>3 DEF FreshRun, At, Corpus
<1>5. FullRun(t) => FullRun(t)'
  BY <1>3 DEF FullRun, At
<1>6. NothingLeft => NothingLeft'
  BY DEF NothingLeft, CollectionEmpty
<1> QED
  BY <1>4, <1>5, <1>6 DEF Healing

(* RAGService.build indexes nothing after a primary indexing that skipped   *)
(* nothing: the collection is not empty.                                    *)
LEMMA BuildLeavesRun ==
  ASSUME Base, Build, alone = Boot, Healing(Boot), ~ Underway(Boot)
  PROVE  Healing(Boot)'
<1>0. TypeOK /\ Boot \in Actors /\ task' = task /\ NoHash \notin Hash
      /\ UNCHANGED <<disk, copies, stores, docstore, pipeline, saved, history>>
  BY IngestionMarkers DEF Base, Actors, Build, corpus, service
<1>1. AloneFirst(Boot)'
  BY <1>0 DEF Healing, AloneFirst, Running
<1>2. task[Boot].kind # "full"
  BY DEF Base, Served
<1>3. ASSUME task[Boot].phase # "failed" PROVE FreshRun(Boot)'
  <2>1. FreshRun(Boot) /\ task[Boot].phase = "done"
    BY <1>0, <1>3 DEF Healing, AloneFirst, Underway, Running
  <2>2. Snapshot(Boot) /\ Snapshot(Boot)'
    BY <1>0, <2>1 DEF FreshRun, At, Snapshot, Corpus
  <2>3. FromNothing(Boot)' <=> FromNothing(Boot)
    BY <1>0 DEF FromNothing, At, Documents
  <2>4. \A f \in Files : Mirrors(f, task[Boot].docs[f])' <=> Mirrors(f, task[Boot].docs[f])
    BY <1>0 DEF Mirrors
  <2>5. ASSUME FromNothing(Boot) PROVE raw' = {}
    <3>1. raw = {} /\ \A f \in Files : Mirrors(f, task[Boot].docs[f])
      BY <2>1, <2>5 DEF FreshRun, At
    <3>2. PICK f \in Files : task[Boot].docs[f] # NoHash
      BY <2>2 DEF Snapshot, Corpus
    <3>3. task[Boot].docs[f] \in Hash
      BY <1>0, <3>2 DEF TypeOK, Job, Docstore
    <3>4. copies[f] = OneCopy(task[Boot].docs[f])
      BY <3>1, <3>2 DEF Mirrors
    <3>5. copies[f] # NoCopies
      BY <3>3, <3>4 DEF OneCopy, NoCopies
    <3>6. ~ CollectionEmpty
      BY <3>5 DEF CollectionEmpty
    <3> QED
      BY <3>1, <3>6 DEF Build
  <2>6. At(Boot, {"done"})' /\ At(Boot, {"done"})
    BY <1>0, <2>1 DEF At
  <2> QED
    BY <1>0, <2>1, <2>2, <2>3, <2>4, <2>5 DEF FreshRun, At, Corpus
<1> QED
  BY <1>0, <1>1, <1>2, <1>3 DEF Healing

LEMMA ProcessKeepsHeals ==
  ASSUME Base, HealsAlone, \/ Start \/ StartWithoutService \/ Build \/ BuildFails
                           \/ BootIndexed \/ Stop \/ NextDay \/ UNCHANGED vars
  PROVE  HealsAlone'
<1>0. TypeOK /\ Served /\ None \notin Actors /\ Boot \in Actors
      /\ FullIsWhole /\ PrimaryFirst /\ \A t \in Actors : alone = t => Healing(t)
  BY IngestionMarkers, HealsParts DEF Base, Actors
<1>1. CASE Start
  <2>1. /\ OthersKeep(Boot)
        /\ \/ task'[Boot] = task[Boot]
           \/ /\ CollectionEmpty /\ process' = "indexing"
              /\ task'[Boot].phase = "queued" /\ task'[Boot].kind = "all"
    BY <1>0, <1>1, Starts
  <2>2. alone' = None /\ ~ Underway(Boot)
        /\ docstore' = pipeline' /\ UNCHANGED <<copies, raw>>
    BY <1>0, <1>1 DEF Start, Served
  <2>3. FullIsWhole'
    BY <1>0, <2>1 DEF FullIsWhole, OthersKeep
  <2>4. PrimaryFirst'
    BY <2>1, <2>2 DEF PrimaryFirst, Underway, Running, CollectionEmpty
  <2> QED
    BY <1>0, <2>2, <2>3, <2>4, HealsJoined
<1>2. CASE StartWithoutService
  <2>1. alone' = None /\ ~ Underway(Boot) /\ task' = task
    BY <1>0, <1>2 DEF StartWithoutService, Served
  <2> QED
    BY <1>0, <2>1, HealsJoined DEF FullIsWhole, PrimaryFirst, Underway, Running
<1>3. CASE Stop
  <2>1. \A u \in Actors : task'[u] = task[u] \/ task'[u].kind = "all"
    BY <1>0, <1>3, Stops
  <2>2. alone' = None /\ task'[Boot].phase = "lost"
    BY <1>0, <1>3, Stops DEF Stop
  <2>3. PrimaryFirst'
    BY <2>2 DEF PrimaryFirst, Underway, Running
  <2> QED
    BY <1>0, <2>1, <2>2, <2>3, HealsJoined DEF FullIsWhole
<1>4. CASE Build
  <2>1. task' = task /\ alone' = alone /\ process = "building"
    BY <1>4 DEF Build
  <2>2. ~ Underway(Boot) /\ FullIsWhole' /\ PrimaryFirst'
    BY <1>0, <2>1 DEF PrimaryFirst, FullIsWhole, Underway, Running
  <2>3. \A t \in Actors : alone = t => t = Boot
    BY <1>0, <2>1 DEF Healing, AloneFirst
  <2>4. alone = Boot => Healing(Boot)'
    BY <1>0, <1>4, <2>2, BuildLeavesRun
  <2> QED
    BY <2>1, <2>2, <2>3, <2>4, HealsJoined
<1>5. CASE BuildFails \/ BootIndexed \/ NextDay \/ UNCHANGED vars
  <2>1. /\ UNCHANGED <<disk, raw, copies, stores, docstore, pipeline, saved, task, alone, history>>
        /\ process' # process =>
             \/ process # "up" /\ task[Boot].phase \in {"done", "failed"}
             \/ process = "building"
    BY <1>5 DEF BuildFails, BootIndexed, NextDay, vars, corpus, vectors, service
  <2>2. FullIsWhole' /\ PrimaryFirst'
    BY <1>0, <2>1 DEF PrimaryFirst, FullIsWhole, Underway, Running, CollectionEmpty
  <2>3. ASSUME NEW t \in Actors, alone = t PROVE Healing(t)'
    <3>1. Healing(t) /\ AloneFirst(t)
      BY <1>0, <2>3 DEF Healing
    <3>2. AloneFirst(t)'
      BY <2>1, <3>1 DEF AloneFirst, Running
    <3> QED
      BY <2>1, <3>1, <3>2, RunStays
  <2> QED
    BY <2>1, <2>2, <2>3, HealsJoined
<1> QED
  BY <1>1, <1>2, <1>3, <1>4, <1>5

LEMMA RequestKeepsHeals ==
  ASSUME Base, HealsAlone, NEW t \in Tasks,
         \/ \E f \in Files, x \in Text : UploadDocument(t, f, x)
         \/ \E kind \in {"files", "all", "full"}, files \in SUBSET Files :
              Reindex(t, kind, files)
  PROVE  HealsAlone'
<1>0. TypeOK /\ None \notin Actors /\ t \in Actors /\ t # Boot /\ Boot \in Actors
      /\ FullIsWhole /\ PrimaryFirst /\ \A u \in Actors : alone = u => Healing(u)
  BY IngestionMarkers, IngestionConstants, HealsParts DEF Base, Actors
<1>1. ASSUME OthersKeep(t), process = "up", process' = process,
             task'[t].kind = "full" => task'[t].files = {}
      PROVE  FullIsWhole' /\ PrimaryFirst'
  <2>1. task'[Boot] = task[Boot] /\ ~ Underway(Boot)
    BY <1>0, <1>1 DEF OthersKeep, PrimaryFirst
  <2> QED
    BY <1>0, <1>1, <2>1 DEF FullIsWhole, PrimaryFirst, OthersKeep, Underway, Running
<1>2. CASE \E f \in Files, x \in Text : UploadDocument(t, f, x)
  <2>1. PICK f \in Files, x \in Text : UploadDocument(t, f, x)
    BY <1>2
  <2>2. task' = [task EXCEPT ![t] = [Idle EXCEPT !.kind = "upload", !.files = {f},
                                                 !.phase = "queued"]]
        /\ {f} \in SUBSET Files
    BY <2>1 DEF UploadDocument
  <2>3. OthersKeep(t) /\ task'[t].kind = "upload"
    BY <1>0, <2>2, Queues
  <2>4. alone' = None /\ process = "up" /\ process' = process
    BY <2>1 DEF UploadDocument, boot
  <2> QED
    BY <1>0, <1>1, <2>3, <2>4, HealsJoined
<1>3. CASE \E kind \in {"files", "all", "full"}, files \in SUBSET Files :
             Reindex(t, kind, files)
  <2>1. PICK kind \in {"files", "all", "full"}, files \in SUBSET Files :
          Reindex(t, kind, files)
    BY <1>3
  <2>2. UNCHANGED <<disk, raw, copies, stores, docstore, pipeline, saved, process, alone>>
        /\ history \subseteq history' /\ process = "up"
        /\ (kind = "full" => files = {}) /\ task[t].phase = "new"
    BY <2>1 DEF Reindex, corpus, vectors, service, boot, Note
  <2>3. /\ OthersKeep(t) /\ task'[t].phase = "queued"
        /\ task'[t].kind = kind /\ task'[t].files = files
    BY <1>0, <2>1, Queues DEF Reindex
  <2>4. ASSUME NEW u \in Actors, alone = u PROVE Healing(u)'
    <3>1. Healing(u) /\ AloneFirst(u)
      BY <1>0, <2>4 DEF Healing
    <3>2. u # t /\ task'[u] = task[u]
      BY <2>2, <2>3, <3>1 DEF AloneFirst, OthersKeep
    <3>3. AloneFirst(u)'
      BY <2>2, <2>3, <3>1, <3>2 DEF AloneFirst, Running, OthersKeep
    <3> QED
      BY <2>2, <3>1, <3>2, <3>3, RunStays
  <2> QED
    BY <1>1, <2>2, <2>3, <2>4, HealsJoined
<1> QED
  BY <1>2, <1>3

LEMMA WorkKeepsRequest ==
  ASSUME Base, NEW t \in Actors, Work(t)
  PROVE  /\ OthersKeep(t) /\ KeepsRequest(t) /\ process' = process /\ Underway(t)
         /\ task'[t].phase \notin {"new", "queued", "lost"}
         /\ task'[t].phase \in {"read", "upsert"} =>
              Read(t) \/ RunPipeline(t) \/ \E f \in Files : Upsert(t, f)
<1>0. TypeOK
  BY DEF Base
<1>1. ASSUME NEW phase \in Phases \ {"new", "queued", "read", "upsert", "lost"},
             Enter(t, phase)
      PROVE  /\ OthersKeep(t) /\ KeepsRequest(t)
             /\ task'[t].phase \notin {"new", "queued", "read", "upsert", "lost"}
  BY <1>0, <1>1, EntersPhase
<1>2. process' = process /\ Underway(t)
  BY DEF Work, DeleteCollection, ForgetDocstore, BuildPipeline, Read, RunPipeline,
     Upsert, Decide, AddVectors, RecordHashes, OpenDocstoreFile, PersistDocstore,
     TaskFails, CollectionGone, Fails, boot, Underway, Running
<1>3. CASE Read(t)
  BY <1>0, <1>2, <1>3, Reads
<1>4. CASE RunPipeline(t)
  BY <1>0, <1>2, <1>4, RunsPipeline
<1>5. CASE \E f \in Files : Upsert(t, f)
  BY <1>0, <1>2, <1>5, Upserts
<1>6. CASE ~ Read(t) /\ ~ RunPipeline(t) /\ ~ \E f \in Files : Upsert(t, f)
  <2>1. \E phase \in Phases \ {"new", "queued", "read", "upsert", "lost"} : Enter(t, phase)
    BY <1>6 DEF Work, DeleteCollection, ForgetDocstore, BuildPipeline, AddVectors,
       RecordHashes, OpenDocstoreFile, PersistDocstore, TaskFails, CollectionGone,
       Fails, Phases
  <2> QED
    BY <1>1, <1>2, <2>1
<1> QED
  BY <1>3, <1>4, <1>5, <1>6

(* Another task touches nothing that a run left which was alone: one that   *)
(* was queued and cannot delete the collection.                             *)
LEMMA OthersLeaveRun ==
  ASSUME Base, NEW u \in Actors, Work(u), NEW t \in Actors \ {u}, alone' = t,
         Healing(t) \/ alone # t
  PROVE  alone = t /\ Healing(t)'
<1>0. TypeOK /\ None \notin Actors
  BY IngestionMarkers DEF Base
<1>1. alone = t
  BY <1>0 DEF Work, DeleteCollection, ForgetDocstore, BuildPipeline, Read, RunPipeline,
     Upsert, Decide, AddVectors, RecordHashes, OpenDocstoreFile, PersistDocstore,
     TaskFails, CollectionGone, Fails
<1>2. Healing(t) /\ AloneFirst(t)
  BY <1>1 DEF Healing
<1>3. OthersKeep(u) /\ KeepsRequest(u) /\ process' = process /\ Underway(u)
  BY WorkKeepsRequest
<1>4. task[u].phase = "queued"
  BY <1>2, <1>3 DEF AloneFirst, Underway, Running
<1>5. ~ DeleteCollection(u) /\ ~ Read(u)
  BY <1>0, <1>4 DEF DeleteCollection, Read
<1>6. TaskFails(u) /\ task[u].kind = "full" /\ task[u].batch = {}
  BY <1>4, <1>5 DEF Work, ForgetDocstore, BuildPipeline, RunPipeline, Upsert, Decide,
     AddVectors, RecordHashes, OpenDocstoreFile, PersistDocstore, TaskFails,
     CollectionGone, Base, Served
<1>7. Fails(u) /\ history \subseteq history'
  BY <1>6 DEF TaskFails, Note
<1>8. copies' = copies
  <2>1. Add(u, {}, FALSE)
    BY <1>6 DEF TaskFails
  <2> QED
    BY <1>0, <2>1, Adds
<1>9. UNCHANGED <<disk, raw, copies, stores, docstore, pipeline, saved>>
      /\ task'[u].phase = "failed"
  BY <1>0, <1>6, <1>7, <1>8, FailsAside DEF service
<1>10. AloneFirst(t)'
  BY <1>2, <1>3, <1>9 DEF AloneFirst, Running, OthersKeep
<1> QED
  BY <1>1, <1>2, <1>3, <1>7, <1>9, <1>10, RunStays DEF OthersKeep

(* The task that is alone takes its next step.                              *)
LEMMA StaysAlone ==
  ASSUME Base, HealsAlone, NEW t \in Actors, Work(t), alone' = t
  PROVE  /\ AloneFirst(t)'
         /\ ~ DeleteCollection(t) /\ ~ Read(t) => alone = t
         /\ Read(t) /\ task[t].kind = "full" => alone = t
<1>0. TypeOK /\ Served
  BY DEF Base
<1>1. /\ OthersKeep(t) /\ process' = process /\ Underway(t)
      /\ task'[t].phase \notin {"new", "queued", "lost"}
  BY WorkKeepsRequest
<1>2. ~ DeleteCollection(t) /\ ~ Read(t) => alone = t
  BY DEF Work, ForgetDocstore, BuildPipeline, RunPipeline, Upsert, Decide, AddVectors,
     RecordHashes, OpenDocstoreFile, PersistDocstore, TaskFails, CollectionGone, Fails
<1>3. Read(t) /\ task[t].kind = "full" => alone = t
  BY IngestionMarkers DEF Read
<1>4. \A u \in Actors \ {t} : ~ Running(u)
  <2>1. CASE DeleteCollection(t) \/ Read(t)
    <3>1. ~ Overlapping(t)
      BY <2>1, IngestionMarkers DEF DeleteCollection, Read
    <3> QED
      BY <3>1 DEF Overlapping
  <2>2. CASE ~ DeleteCollection(t) /\ ~ Read(t)
    BY <1>2, <2>2 DEF HealsAlone, AloneFirst
  <2> QED
    BY <2>1, <2>2
<1>5. AloneFirst(t)'
  BY <1>0, <1>1, <1>4 DEF AloneFirst, Running, OthersKeep, Served
<1> QED
  BY <1>2, <1>3, <1>5

(* What an indexing from nothing reads.                                     *)
LEMMA FreshReads ==
  ASSUME Base, NEW t \in Actors, Read(t), task[t].files = {}, task'[t].phase # "failed",
         CollectionEmpty, pipeline = docstore
  PROVE  FreshRun(t)'
<1>0. TypeOK /\ NoHash \notin Hash
  BY IngestionMarkers DEF Base
<1>1. Asked(t) = Corpus /\ Corpus' = Corpus
      /\ UNCHANGED <<disk, raw, copies, docstore, pipeline>>
  BY DEF Asked, Read, Corpus, corpus, vectors, service
<1>2. /\ task'[t].phase = "read" /\ Corpus # {}
      /\ \A f \in Files :
           task'[t].docs[f] = IF f \in Corpus THEN [text |-> disk[f], day |-> day]
                              ELSE NoHash
  BY <1>0, <1>1, Reads
<1>3. Snapshot(t)'
  <2>1. ASSUME NEW f \in Corpus
        PROVE  [text |-> disk[f], day |-> day] \in Hash
    <3>1. disk[f] \in 0 .. MaxText /\ disk[f] # 0 /\ day \in 1 .. MaxDay
      BY <1>0 DEF Corpus, TypeOK
    <3>2. disk[f] \in Text
      BY <3>1, IngestionConstants DEF Text
    <3> QED
      BY <3>1, <3>2 DEF Hash
  <2>2. ASSUME NEW f \in Corpus
        PROVE  task'[t].docs[f] # NoHash /\ task'[t].docs[f].text = disk[f]
    <3>1. f \in Files /\ task'[t].docs[f] = [text |-> disk[f], day |-> day]
      BY <1>2, <2>2 DEF Corpus
    <3> QED
      BY <1>0, <2>1, <3>1
  <2>3. \A f \in Files \ Corpus : task'[t].docs[f] = NoHash
    BY <1>2
  <2> QED
    BY <1>1, <1>2, <2>2, <2>3 DEF Snapshot
<1> QED
  BY <1>1, <1>2, <1>3 DEF FreshRun, At, CollectionEmpty

(* An indexing from nothing takes its next step.                            *)
LEMMA FreshAdvances ==
  ASSUME Base, HealsAlone, NEW t \in Actors, Work(t), alone' = t,
         t = Boot \/ task[t].kind = "full", task'[t].phase # "failed"
  PROVE  FreshRun(t)'
<1>0. TypeOK /\ Served /\ NoHash \notin Hash /\ None \notin Docstore /\ None \notin Actors
      /\ task[t] \in Job /\ task[t].files = {} /\ OthersKeep(t)
  BY IngestionMarkers, WorkKeepsRequest DEF Base, TypeOK, HealsAlone, Served
<1>1. ASSUME NEW phase \in Phases, Enter(t, phase)
      PROVE  KeepsWork(t) /\ task'[t].phase = phase /\ (FromNothing(t)' <=>
               /\ phase \in {"upsert"} => task[t].todo \cup task[t].batch = Documents(t)
               /\ phase \in {"added", "recorded", "saving", "done"} =>
                    task[t].batch = Documents(t))
  <2>1. KeepsWork(t) /\ task'[t].phase = phase
    BY <1>0, <1>1, EntersPhase
  <2> QED
    BY <2>1 DEF FromNothing, At, Documents, KeepsWork
<1>2. ASSUME ~ DeleteCollection(t), ~ Read(t)
      PROVE  FreshRun(t)
  <2>1. alone = t /\ task[t].phase # "failed"
    BY <1>2, StaysAlone DEF Work, ForgetDocstore, BuildPipeline, RunPipeline, Upsert, Decide,
       AddVectors, RecordHashes, OpenDocstoreFile, PersistDocstore, TaskFails,
       CollectionGone
  <2> QED
    BY <2>1 DEF HealsAlone
<1>3. ASSUME Corpus' = Corpus, disk' = disk, task'[t].docs = task[t].docs, Snapshot(t)
      PROVE  Snapshot(t)'
  BY <1>3 DEF Snapshot
<1>4. CASE DeleteCollection(t)
  <2>1. task'[t].phase = "forget"
    BY <1>1, <1>4 DEF DeleteCollection, Phases
  <2>2. raw' = {} /\ \A f \in Files : copies'[f] = NoCopies
    BY <1>4 DEF DeleteCollection
  <2> QED
    BY <2>1, <2>2 DEF FreshRun, At
<1>5. CASE ForgetDocstore(t)
  <2>1. task'[t].phase = "rebuild" /\ task[t].phase = "forget"
    BY <1>1, <1>5 DEF ForgetDocstore, Phases
  <2>2. FreshRun(t) /\ UNCHANGED <<raw, copies>>
    BY <1>2, <1>5, <2>1 DEF ForgetDocstore, vectors, DeleteCollection, Read
  <2>3. raw = {} /\ \A f \in Files : copies[f] = NoCopies
    BY <2>1, <2>2 DEF FreshRun, At, FromNothing
  <2> QED
    BY <2>1, <2>2, <2>3 DEF FreshRun, At
<1>6. CASE BuildPipeline(t)
  <2>1. task'[t].phase = "start" /\ task[t].phase = "rebuild"
    BY <1>1, <1>6 DEF BuildPipeline, Phases
  <2>2. FreshRun(t) /\ UNCHANGED <<raw, copies>>
    BY <1>2, <1>6, <2>1 DEF BuildPipeline, vectors, DeleteCollection, Read
  <2>3. raw = {} /\ \A f \in Files : copies[f] = NoCopies
    BY <2>1, <2>2 DEF FreshRun, At, FromNothing
  <2> QED
    BY <2>1, <2>2, <2>3 DEF FreshRun, At
<1>7. CASE Read(t)
  <2>1. CASE task[t].kind = "full"
    <3>1. alone = t /\ task[t].phase = "start"
      BY <1>7, <2>1, StaysAlone DEF Read
    <3>2. FreshRun(t) /\ FullRun(t)
      BY <2>1, <3>1 DEF HealsAlone
    <3>3. CollectionEmpty
      BY <3>1, <3>2 DEF FreshRun, At, FromNothing, CollectionEmpty
    <3>4. pipeline = docstore
      BY <3>1, <3>2 DEF FullRun, At
    <3> QED
      BY <1>0, <1>7, <3>3, <3>4, FreshReads
  <2>2. CASE task[t].kind # "full"
    <3>1. t = Boot /\ task[t].phase = "queued"
      BY <1>0, <1>7, <2>2 DEF Read, Served
    <3> QED
      BY <1>0, <1>7, <3>1, FreshReads DEF HealsAlone, PrimaryFirst
  <2> QED
    BY <2>1, <2>2
<1>8. CASE RunPipeline(t)
  <2>1. /\ task'[t].phase = "upsert" /\ task'[t].store = pipeline
        /\ task'[t].docs = task[t].docs /\ task[t].phase = "read"
    BY <1>0, <1>8, RunsPipeline DEF RunPipeline
  <2>2. UNCHANGED <<disk, raw, copies, docstore>>
    BY <1>8 DEF RunPipeline, vectors, corpus, service
  <2>3. FreshRun(t)
    BY <1>2, <1>8, <2>1 DEF DeleteCollection, Read
  <2>4. raw = {} /\ pipeline = docstore /\ Snapshot(t)
        /\ \A f \in Files : copies[f] = NoCopies
    BY <2>1, <2>3 DEF FreshRun, At, FromNothing
  <2>5. Snapshot(t)'
    BY <1>3, <2>1, <2>2, <2>4 DEF Corpus
  <2> QED
    BY <2>1, <2>2, <2>4, <2>5 DEF FreshRun, At
<1>9. CASE \E f \in Files : Upsert(t, f)
  <2>0. PICK f \in Files : Upsert(t, f)
    BY <1>9
  <2>1. /\ task[t].phase = "upsert" /\ task'[t].phase = "upsert"
        /\ task'[t].store = task[t].store /\ task'[t].docs = task[t].docs
        /\ task'[t].todo \cup task'[t].batch \subseteq task[t].todo \cup task[t].batch
        /\ UNCHANGED <<disk, raw, docstore>>
    BY <1>0, <2>0, Upserts DEF corpus, service
  <2>2. FreshRun(t)
    BY <1>2, <2>1 DEF DeleteCollection, Read
  <2>3. task[t].store = docstore /\ Snapshot(t) /\ \A g \in Files : copies[g] = NoCopies
    BY <2>1, <2>2 DEF FreshRun, At
  <2>4. \A g \in Files : copies'[g] = NoCopies
    BY <1>0, <2>0, <2>3 DEF Upsert, TypeOK
  <2>5. Snapshot(t)'
    BY <1>3, <2>1, <2>3 DEF Corpus
  <2>6. FromNothing(t)' => raw' = {}
    <3>1. SUFFICES ASSUME task'[t].todo \cup task'[t].batch = Documents(t)
                   PROVE  FromNothing(t)
      BY <2>1, <2>2 DEF FreshRun, FromNothing, At, Documents
    <3>2. task[t].todo \cup task[t].batch \subseteq Documents(t)
      BY <1>0, <2>1 DEF Served, Documents, Job
    <3> QED
      BY <2>1, <3>1, <3>2 DEF FromNothing, At
  <2> QED
    BY <2>1, <2>3, <2>4, <2>5, <2>6 DEF FreshRun, At
<1>10. CASE AddVectors(t)
  <2>1. KeepsWork(t) /\ task'[t].phase = "added" /\ task[t].phase = "upsert"
        /\ (FromNothing(t)' => task[t].batch = Documents(t))
    BY <1>1, <1>10 DEF AddVectors, Phases
  <2>2. /\ task[t].todo = {} /\ UNCHANGED <<disk, raw, docstore>>
        /\ \A f \in Files : copies'[f] =
             IF f \in task[t].batch THEN [copies[f] EXCEPT ![task[t].docs[f]] = @ + 1]
             ELSE copies[f]
    BY <1>10 DEF AddVectors, Add, service, corpus
  <2>3. FreshRun(t)
    BY <1>2, <2>1 DEF DeleteCollection, Read
  <2>4. task[t].store = docstore /\ Snapshot(t) /\ \A g \in Files : copies[g] = NoCopies
    BY <2>1, <2>3 DEF FreshRun, At
  <2>5. Snapshot(t)'
    BY <1>3, <2>1, <2>2, <2>4 DEF Corpus, KeepsWork
  <2>6. ASSUME FromNothing(t)'
        PROVE  raw' = {} /\ \A f \in Files : Mirrors(f, task[t].docs[f])'
    <3>1. FromNothing(t)
      BY <2>1, <2>2, <2>6 DEF FromNothing, At
    <3>2. ASSUME NEW f \in Files
          PROVE  copies'[f] = IF task[t].docs[f] = NoHash THEN NoCopies
                              ELSE OneCopy(task[t].docs[f])
      <4>1. CASE task[t].docs[f] # NoHash
        <5>1. task[t].docs[f] \in Hash
          BY <1>0, <4>1 DEF Job, Docstore
        <5>2. f \in task[t].batch
          BY <2>1, <2>6, <4>1 DEF Documents
        <5>3. copies'[f] = [NoCopies EXCEPT ![task[t].docs[f]] = @ + 1]
          BY <2>2, <2>4, <5>2
        <5> QED
          BY <4>1, <5>1, <5>3, OneCopyAdded
      <4>2. CASE task[t].docs[f] = NoHash
        <5>1. f \notin task[t].batch
          BY <2>1, <2>6, <4>2 DEF Documents
        <5> QED
          BY <2>2, <2>4, <4>2, <5>1
      <4> QED
        BY <4>1, <4>2
    <3> QED
      BY <2>1, <2>2, <2>3, <3>1, <3>2 DEF FreshRun, Mirrors, KeepsWork
  <2>7. \A f \in Files : FromNothing(t)' => Mirrors(f, task[t].docs[f])'
    BY <2>6
  <2> QED
    BY <2>1, <2>2, <2>4, <2>5, <2>6, <2>7 DEF FreshRun, At, KeepsWork
<1>11. CASE RecordHashes(t)
  <2>1. KeepsWork(t) /\ task'[t].phase = "recorded" /\ task[t].phase = "added"
        /\ (FromNothing(t)' <=> task[t].batch = Documents(t))
    BY <1>1, <1>11 DEF RecordHashes, Phases
  <2>2. UNCHANGED <<disk, raw, copies, docstore>>
    BY <1>11 DEF RecordHashes, vectors, corpus
  <2>3. FreshRun(t)
    BY <1>2, <2>1 DEF DeleteCollection, Read
  <2>4. task[t].store = docstore /\ Snapshot(t) /\ docstore # None
    BY <1>0, <2>1, <2>3 DEF FreshRun, At, Served
  <2>5. Snapshot(t)'
    BY <1>3, <2>1, <2>2, <2>4 DEF Corpus, KeepsWork
  <2>6. FromNothing(t)' => FromNothing(t)
    BY <2>1 DEF FromNothing, At
  <2>7. ASSUME FromNothing(t)', NEW f \in Corpus
        PROVE  stores'[docstore][f] = task[t].docs[f]
    <3>1. f \in Files /\ f \in task[t].batch
      BY <2>1, <2>4, <2>7 DEF Snapshot, Documents, Corpus
    <3>2. docstore \in Actors
      BY <1>0, <2>4 DEF TypeOK
    <3> QED
      BY <1>0, <1>11, <2>4, <3>1, <3>2 DEF RecordHashes, TypeOK
  <2>8. \A f \in Files : Mirrors(f, task[t].docs[f])' <=> Mirrors(f, task[t].docs[f])
    BY <2>1, <2>2 DEF Mirrors, KeepsWork
  <2>9. Corpus' = Corpus
    BY <2>2 DEF Corpus
  <2> QED
    BY <2>1, <2>2, <2>3, <2>5, <2>6, <2>7, <2>8, <2>9 DEF FreshRun, At, KeepsWork
<1>12. CASE OpenDocstoreFile(t)
  <2>1. KeepsWork(t) /\ task'[t].phase = "saving" /\ task[t].phase = "recorded"
        /\ (FromNothing(t)' <=> task[t].batch = Documents(t))
    BY <1>1, <1>12 DEF OpenDocstoreFile, Phases
  <2>2. UNCHANGED <<disk, raw, copies, docstore, stores>>
    BY <1>12 DEF OpenDocstoreFile, vectors, corpus
  <2>3. FreshRun(t)
    BY <1>2, <2>1 DEF DeleteCollection, Read
  <2>4. Corpus' = Corpus /\ Snapshot(t)'
    BY <1>3, <2>1, <2>2, <2>3 DEF Corpus, KeepsWork, FreshRun, At
  <2>5. FromNothing(t)' <=> FromNothing(t)
    BY <2>1 DEF FromNothing, At
  <2>6. \A f \in Files : Mirrors(f, task[t].docs[f])' <=> Mirrors(f, task[t].docs[f])
    BY <2>1, <2>2 DEF Mirrors, KeepsWork
  <2> QED
    BY <2>1, <2>2, <2>3, <2>4, <2>5, <2>6 DEF FreshRun, At, KeepsWork
<1>13. CASE PersistDocstore(t)
  <2>1. KeepsWork(t) /\ task'[t].phase = "done" /\ task[t].phase = "saving"
        /\ (FromNothing(t)' <=> task[t].batch = Documents(t))
    BY <1>1, <1>13 DEF PersistDocstore, Phases
  <2>2. UNCHANGED <<disk, raw, copies, docstore, stores>> /\ saved' = stores[docstore]
    BY <1>13 DEF PersistDocstore, vectors, corpus
  <2>3. FreshRun(t)
    BY <1>2, <2>1 DEF DeleteCollection, Read
  <2>4. Corpus' = Corpus /\ Snapshot(t)'
    BY <1>3, <2>1, <2>2, <2>3 DEF Corpus, KeepsWork, FreshRun, At
  <2>5. FromNothing(t)' <=> FromNothing(t)
    BY <2>1 DEF FromNothing, At
  <2>6. \A f \in Files : Mirrors(f, task[t].docs[f])' <=> Mirrors(f, task[t].docs[f])
    BY <2>1, <2>2 DEF Mirrors, KeepsWork
  <2>7. docstore # None
    BY <1>0, <2>1 DEF Served, Underway, Running
  <2>8. saved' # None
    BY <1>0, <2>2, <2>7 DEF TypeOK
  <2> QED
    BY <2>1, <2>2, <2>3, <2>4, <2>5, <2>6, <2>8 DEF FreshRun, At, KeepsWork
<1>14. CASE TaskFails(t) \/ CollectionGone(t)
  BY <1>0, <1>14, FailsAside DEF TaskFails, CollectionGone
<1> QED
  BY <1>4, <1>5, <1>6, <1>7, <1>8, <1>9, <1>10, <1>11, <1>12, <1>13, <1>14 DEF Work

(* What a full reindexing knows of its docstore at its next step.           *)
LEMMA FullAdvances ==
  ASSUME Base, HealsAlone, NEW t \in Actors, Work(t), alone' = t,
         task[t].kind = "full", task'[t].phase # "failed"
  PROVE  FullRun(t)'
<1>0. TypeOK /\ Served /\ task[t] \in Job /\ task[t].files = {}
  BY DEF Base, TypeOK, HealsAlone
<1>1. ASSUME NEW phase \in Phases, Enter(t, phase)
      PROVE  KeepsWork(t) /\ task'[t].phase = phase
  BY <1>0, <1>1, EntersPhase
<1>2. ASSUME ~ DeleteCollection(t)
      PROVE  FreshRun(t) /\ FullRun(t)
  <2>1. alone = t /\ task[t].phase # "failed"
    BY <1>2, StaysAlone DEF Work, ForgetDocstore, BuildPipeline, Read, RunPipeline, Upsert,
       Decide, AddVectors, RecordHashes, OpenDocstoreFile, PersistDocstore, TaskFails,
       CollectionGone
  <2> QED
    BY <2>1 DEF HealsAlone
<1>3. CASE DeleteCollection(t)
  <2>1. task'[t].phase = "forget"
    BY <1>1, <1>3 DEF DeleteCollection, Phases
  <2> QED
    BY <2>1 DEF FullRun, At
<1>4. CASE ForgetDocstore(t)
  <2>1. task'[t].phase = "rebuild"
    BY <1>1, <1>4 DEF ForgetDocstore, Phases
  <2>2. docstore' = t /\ stores'[t] = EmptyDocstore /\ saved' = None
    BY <1>0, <1>4 DEF ForgetDocstore, TypeOK
  <2> QED
    BY <2>1, <2>2 DEF FullRun, At
<1>5. CASE BuildPipeline(t)
  <2>1. task'[t].phase = "start" /\ task[t].phase = "rebuild" /\ pipeline' = docstore
        /\ UNCHANGED <<stores, docstore, saved>>
    BY <1>1, <1>5 DEF BuildPipeline, Phases
  <2>2. FullRun(t)
    BY <1>2, <2>1 DEF DeleteCollection
  <2> QED
    BY <2>1, <2>2 DEF FullRun, At
<1>6. CASE Read(t)
  <2>1. task'[t].phase = "read" /\ task[t].phase = "start"
    BY <1>0, <1>6, Reads DEF Read
  <2>2. FullRun(t) /\ UNCHANGED service
    BY <1>2, <1>6, <2>1 DEF DeleteCollection, Read
  <2> QED
    BY <2>1, <2>2 DEF FullRun, At, service
<1>7. CASE RunPipeline(t)
  <2>1. /\ task'[t].phase = "upsert" /\ task'[t].docs = task[t].docs
        /\ task'[t].todo = Documents(t) /\ task'[t].batch = task[t].batch
        /\ task[t].phase = "read" /\ UNCHANGED service
    BY <1>0, <1>7, RunsPipeline DEF RunPipeline, Documents
  <2>2. FullRun(t) /\ task[t].batch = {}
    BY <1>0, <1>2, <2>1 DEF DeleteCollection, Served
  <2>3. FromNothing(t)'
    BY <2>1, <2>2 DEF FromNothing, At, Documents
  <2> QED
    BY <2>1, <2>2, <2>3 DEF FullRun, At, service
<1>8. CASE \E f \in Files : Upsert(t, f)
  <2>0. PICK f \in Files : Upsert(t, f)
    BY <1>8
  <2>1. /\ task[t].phase = "upsert" /\ task'[t].phase = "upsert"
        /\ task'[t].docs = task[t].docs /\ UNCHANGED service
        /\ f \in task[t].todo /\ task'[t].todo = task[t].todo \ {f}
        /\ task'[t].batch = IF Same(t, f) THEN task[t].batch ELSE task[t].batch \cup {f}
    BY <1>0, <2>0, Upserts
  <2>2. FreshRun(t) /\ FullRun(t)
    BY <1>2, <2>1 DEF DeleteCollection
  <2>3. task[t].store = t /\ stores[t] = EmptyDocstore /\ FromNothing(t)
    BY <2>1, <2>2 DEF FreshRun, FullRun, At
  <2>4. ~ Same(t, f)
    BY <1>0, <2>1, <2>3 DEF Same, Served, EmptyDocstore
  <2>5. FromNothing(t)'
    BY <2>1, <2>3, <2>4 DEF FromNothing, At, Documents
  <2> QED
    BY <2>1, <2>2, <2>5 DEF FullRun, At, service
<1>9. CASE AddVectors(t)
  <2>1. KeepsWork(t) /\ task'[t].phase = "added" /\ task[t].phase = "upsert"
        /\ task[t].todo = {} /\ UNCHANGED service
    BY <1>1, <1>9 DEF AddVectors, Phases
  <2>2. FullRun(t)
    BY <1>2, <2>1 DEF DeleteCollection
  <2>3. FromNothing(t)'
    BY <2>1, <2>2 DEF FullRun, FromNothing, At, Documents, KeepsWork
  <2> QED
    BY <2>1, <2>2, <2>3 DEF FullRun, At, service
<1>10. CASE RecordHashes(t)
  <2>1. KeepsWork(t) /\ task'[t].phase = "recorded" /\ task[t].phase = "added"
        /\ saved' = saved
    BY <1>1, <1>10 DEF RecordHashes, Phases
  <2>2. FullRun(t)
    BY <1>2, <2>1 DEF DeleteCollection
  <2>3. FromNothing(t)'
    BY <2>1, <2>2 DEF FullRun, FromNothing, At, Documents, KeepsWork
  <2> QED
    BY <2>1, <2>2, <2>3 DEF FullRun, At
<1>11. CASE OpenDocstoreFile(t) \/ PersistDocstore(t)
  <2>1. KeepsWork(t) /\ task'[t].phase \in {"saving", "done"}
        /\ task[t].phase \in {"recorded", "saving"}
    BY <1>1, <1>11 DEF OpenDocstoreFile, PersistDocstore, Phases
  <2>2. FullRun(t)
    BY <1>2, <2>1 DEF DeleteCollection
  <2>3. FromNothing(t)'
    BY <2>1, <2>2 DEF FullRun, FromNothing, At, Documents, KeepsWork
  <2> QED
    BY <2>1, <2>2, <2>3 DEF FullRun, At
<1>12. CASE TaskFails(t) \/ CollectionGone(t)
  BY <1>0, <1>12, FailsAside DEF TaskFails, CollectionGone
<1> QED
  BY <1>3, <1>4, <1>5, <1>6, <1>7, <1>8, <1>9, <1>10, <1>11, <1>12 DEF Work

(* Refused by its own vector store, or without a file to read, it leaves    *)
(* what it began with.                                                      *)
LEMMA FullFails ==
  ASSUME Base, HealsAlone, NEW t \in Actors, Work(t), alone' = t,
         task[t].kind = "full", task'[t].phase = "failed", "failure" \notin history'
  PROVE  NothingLeft'
<1>0. TypeOK /\ task[t].files = {}
  BY DEF Base, HealsAlone
<1>1. Read(t) \/ CollectionGone(t)
  <2>1. ~ TaskFails(t)
    BY DEF TaskFails, Note
  <2>2. ASSUME NEW phase \in Phases \ {"failed"}, Enter(t, phase) PROVE FALSE
    BY <1>0, <2>2, EntersPhase
  <2> QED
    BY <1>0, <2>1, <2>2, RunsPipeline, Upserts DEF Work, DeleteCollection, ForgetDocstore,
       BuildPipeline, AddVectors, RecordHashes, OpenDocstoreFile, PersistDocstore, Phases
<1>2. alone = t /\ task[t].phase \in {"start", "upsert"}
      /\ UNCHANGED <<copies, raw, stores, docstore, saved>>
  BY <1>1, StaysAlone DEF Read, CollectionGone, Fails, DeleteCollection, vectors, service
<1>3. FreshRun(t) /\ FullRun(t)
  BY <1>2 DEF HealsAlone
<1>4. CollectionEmpty /\ saved = None /\ docstore = t /\ stores[t] = EmptyDocstore
  BY <1>2, <1>3 DEF FreshRun, FullRun, FromNothing, At, CollectionEmpty
<1> QED
  BY <1>2, <1>4 DEF NothingLeft, CollectionEmpty

LEMMA WorkKeepsHeals ==
  ASSUME Base, HealsAlone, NEW u \in Actors, Work(u)
  PROVE  HealsAlone'
<1>0. TypeOK /\ Served /\ Boot \in Actors
      /\ FullIsWhole /\ PrimaryFirst /\ \A t \in Actors : alone = t => Healing(t)
  BY HealsParts DEF Base, Actors
<1>1. /\ OthersKeep(u) /\ KeepsRequest(u) /\ process' = process /\ Underway(u)
      /\ task'[u].phase \notin {"new", "queued", "lost"}
  BY WorkKeepsRequest
<1>2. FullIsWhole'
  BY <1>0, <1>1 DEF FullIsWhole, OthersKeep, KeepsRequest
<1>3. PrimaryFirst'
  <2>1. Underway(Boot)' => Underway(Boot)
    BY <1>0, <1>1 DEF Underway, Running, OthersKeep
  <2>2. task'[Boot].phase # "queued"
    BY <1>0, <1>1 DEF OthersKeep, PrimaryFirst, Served, Underway
  <2> QED
    BY <1>0, <1>1, <2>1, <2>2 DEF PrimaryFirst
<1>4. ASSUME NEW t \in Actors, alone' = t PROVE Healing(t)'
  <2>1. CASE t = u
    <3>1. AloneFirst(t)' /\ task'[t].kind = task[t].kind
      BY <1>1, <1>4, <2>1, StaysAlone DEF KeepsRequest
    <3> QED
      BY <1>4, <2>1, <3>1, FreshAdvances, FullAdvances, FullFails DEF Healing
  <2>2. CASE t # u
    BY <1>0, <1>4, <2>2, OthersLeaveRun
  <2> QED
    BY <2>1, <2>2
<1> QED
  BY <1>2, <1>3, <1>4, HealsJoined

(* An indexing from nothing that is alone goes through the steps of         *)
(* FreshRun, and a full one through those of FullRun.                       *)
THEOREM FullRunsAlone == Spec => [](Base /\ HealsAlone)
<1>1. Base /\ HealsAlone /\ [Next]_vars => HealsAlone'
  BY ProcessKeepsHeals, RequestKeepsHeals, WorkKeepsHeals DEF Next
<1> QED
  BY <1>1, HealsInit, IndexTypeCorrect, PTL DEF Spec

(* A full reindexing that is alone until it is over leaves exactly the      *)
(* corpus, in the collection and in the saved docstore, or nothing at all;  *)
(* so does the lifespan's indexing that skips nothing.                      *)
THEOREM ReindexingHeals == Spec => []AllOrNothing
<1>1. HealsAlone => AllOrNothing
  <2> SUFFICES ASSUME HealsAlone, NEW t \in Actors, alone = t,
                      t = Boot \/ task[t].kind = "full"
               PROVE  /\ task[t].phase = "done"
                         /\ (t = Boot => task[t].batch = Documents(t)) => ExactlyCorpus(t)
                      /\ task[t].phase = "failed" /\ task[t].kind = "full"
                         /\ "failure" \notin history => NothingLeft
    BY DEF AllOrNothing
  <2>1. task[t].phase = "failed" /\ task[t].kind = "full" /\ "failure" \notin history
        => NothingLeft
    BY DEF HealsAlone
  <2>2. ASSUME task[t].phase = "done", t = Boot => task[t].batch = Documents(t)
        PROVE  ExactlyCorpus(t)
    <3>1. FreshRun(t) /\ (t # Boot => FullRun(t))
      BY <2>2 DEF HealsAlone
    <3>2. FromNothing(t)
      BY <2>2, <3>1 DEF FullRun, FromNothing, At
    <3>3. Snapshot(t)
      BY <2>2, <3>1 DEF FreshRun, At
    <3>4. Documents(t) = Corpus
      BY <3>3 DEF Snapshot, Documents, Corpus
    <3> QED
      BY <2>2, <3>1, <3>2, <3>3, <3>4 DEF FreshRun, At, Snapshot, ExactlyCorpus, Corpus
  <2> QED
    BY <2>1, <2>2
<1> QED
  BY <1>1, FullRunsAlone, PTL

-------------------------------------------------------------------------------
(* The inductive invariant as a whole.                                      *)
THEOREM IngestionInvariance == Spec => []IngestionInv
<1>1. Base /\ CollectionHolds /\ InStep /\ KeepsFiles /\ HealsAlone => IngestionInv
  BY DEF Base, IngestionInv
<1> QED
  BY <1>1, MissingIsEmpty, StoresInStep, FilesCovered, FullRunsAlone, PTL
===============================================================================
