--------------------------- MODULE DocumentsProofs ---------------------------
(***************************************************************************)
(* Proofs about Documents, for any documents, files, chunks, collections   *)
(* and any number of uploads and erasures.                                 *)
(*                                                                         *)
(* None of the properties is inductive.  That a ready document is found    *)
(* rests on Found, which no step undoes: a chunk once upserted has a point *)
(* for good, or a document that held it was swept.  The job carries it     *)
(* from the upsert over the rows to the status (ChunksAreFound).  That a   *)
(* document gone is clean rests on its points lying where its file says    *)
(* (PointsAreHome) and on a job that is over staying over; that nothing is *)
(* embedded twice, on one row per file and on a job's fresh chunks being   *)
(* without rows while it holds them.                                       *)
(***************************************************************************)
EXTENDS Documents, TLAPS

\* While a run holds chunks it found not yet embedded.
Embedding == {"scanned", "embedded", "ensured", "upserted"}

\* A run is counted against arq's bound; a job that was never run, as none.
RunsAreCounted ==
    \A d \in Doc : /\ job[d] = "queued" => tries[d] < MaxTries
                   /\ job[d] = "none" => tries[d] = 0

\* A document has its file once it is inserted, and its job not before.
InsertedHasFile ==
    \A d \in Doc : /\ status[d] = "absent" => job[d] = "none" /\ file[d] = NoFile
                   /\ status[d] # "absent" => file[d] \in File

\* An upload holds the file it was called with, then a document of its own
\* whose job it is about to enqueue.
UploadsHold ==
    \A u \in Upload :
        /\ up[u].pc \in {"checked", "stored", "inserted"} => up[u].file \in File
        /\ up[u].pc = "inserted" => /\ up[u].doc \in Doc
                                    /\ status[up[u].doc] # "absent"
                                    /\ job[up[u].doc] = "none"
                                    /\ \A v \in Upload :
                                          up[v].pc = "inserted" /\ up[v].doc = up[u].doc
                                              => v = u

\* A deleter lists documents that were inserted, and has swept the one it is at.
DeletersHold ==
    \A x \in Deleter :
        /\ \A d \in todo[x] : status[d] # "absent"
        /\ stage[x] \in {"swept", "removed"} =>
              cur[x] \in Doc /\ status[cur[x]] # "absent" /\ swept[cur[x]] # "no"

TypeInv ==
    TypeOK /\ RunsAreCounted /\ InsertedHasFile /\ UploadsHold /\ DeletersHold

\* What a run is about to embed are chunks of its file without a row under it.
FreshIsNew ==
    \A d \in Doc :
        /\ job[d] \notin Embedding => fresh[d] = {}
        /\ \A k \in fresh[d] : k \in Content[file[d]] /\ <<d, k>> \notin rows

\* uq_documents_collection_sha.
OneRowPerFile ==
    \A d, e \in Doc : Present(d) /\ Present(e) /\ file[d] = file[e] => d = e

\* Chunk rows are of documents that have a row, and of chunks of their file.
RowsArePresent ==
    \A d \in Doc, k \in Chunk :
        <<d, k>> \in rows => Present(d) /\ k \in Content[file[d]]

RowInv == FreshIsNew /\ OneRowPerFile /\ RowsArePresent

\* A point is labelled with a document whose collection and chunk it is.
PointsAreHome ==
    \A c \in Collection, k \in Chunk :
        point[<<c, k>>] # NoDoc => /\ file[point[<<c, k>>]] \in File
                               /\ c = Home[file[point[<<c, k>>]]]
                               /\ k \in Content[file[point[<<c, k>>]]]

\* A deletion that swept after the job was over left nothing, and nothing comes.
QuietIsSettled ==
    \A d \in Doc : swept[d] = "quiet" =>
        job[d] = "over" /\ \A c \in Collection, k \in Chunk : point[<<c, k>>] # d

DeletedIsSwept == \A d \in Doc : status[d] = "deleted" => swept[d] # "no"

PointInv == PointsAreHome /\ QuietIsSettled /\ DeletedIsSwept

\* The chunk has a point in the collection, or a document that held it was swept.
Found(c, k) ==
    \/ point[<<c, k>>] # NoDoc
    \/ \E e \in Doc : /\ swept[e] # "no"
                      /\ file[e] \in File
                      /\ Home[file[e]] = c /\ k \in Content[file[e]]

\* The document has the chunk recorded, or its job is past upserting it, or done.
Held(d, k) ==
    \/ <<d, k>> \in rows
    \/ job[d] \in Embedding /\ k \notin fresh[d]
    \/ job[d] \in {"upserted", "recorded"}
    \/ status[d] = "ready"

\* From the upsert on to the status, the chunks of a document are found.
ChunksAreFound ==
    \A d \in Doc : file[d] \in File =>
        \A k \in Content[file[d]] : Held(d, k) => Found(Home[file[d]], k)

DocInv == TypeInv /\ RowInv /\ PointInv /\ ChunksAreFound

-----------------------------------------------------------------------------
LEMMA DocInit == ASSUME StoreAssumption PROVE Init => DocInv
<1> SUFFICES ASSUME Init PROVE DocInv
  OBVIOUS
<1> USE DEF Init
<1>1. \A u \in Upload : up[u] = [pc |-> "idle", file |-> NoFile, doc |-> NoDoc]
  OBVIOUS
<1>2. TypeInv
  <2>1. TypeOK
    BY StoreAssumption DEF TypeOK, Running
  <2>2. RunsAreCounted /\ InsertedHasFile
    BY StoreAssumption DEF RunsAreCounted, InsertedHasFile
  <2>3. UploadsHold
    BY <1>1 DEF UploadsHold
  <2>4. DeletersHold
    BY DEF DeletersHold
  <2> QED
    BY <2>1, <2>2, <2>3, <2>4 DEF TypeInv
<1>3. RowInv
  BY DEF RowInv, FreshIsNew, OneRowPerFile, RowsArePresent, Present
<1>4. PointInv
  BY DEF PointInv, PointsAreHome, QuietIsSettled, DeletedIsSwept
<1>5. ChunksAreFound
  BY DEF ChunksAreFound, Held, Embedding
<1> QED
  BY <1>2, <1>3, <1>4, <1>5 DEF DocInv

-----------------------------------------------------------------------------
(* Types, and who holds what. *)

Uploads == [pc: {"idle", "checked", "stored", "inserted", "done"},
            file: File \union {NoFile}, doc: Doc \union {NoDoc}]

LEMMA InsertedUpload ==
    ASSUME NEW r \in Uploads, NEW d \in Doc
    PROVE  [r EXCEPT !.pc = "inserted", !.doc = d] \in Uploads
BY DEF Uploads

LEMMA UploadingTypes ==
    ASSUME StoreAssumption, TypeInv, NEW u \in Upload, Uploading(u) PROVE TypeInv'
<1> USE DEF TypeInv, TypeOK, RunsAreCounted, InsertedHasFile, UploadsHold,
            DeletersHold, docVars, jobVars, delVars
<1>0. \A v \in Upload : up[v] \in [pc: {"idle", "checked", "stored", "inserted", "done"},
                                   file: File \union {NoFile},
                                   doc: Doc \union {NoDoc}]
  OBVIOUS
<1>1. ASSUME NEW f \in File, CheckExisting(u, f) PROVE TypeInv'
  BY <1>1 DEF CheckExisting, Answered
<1>2. CASE PutObject(u)
  BY <1>0, <1>2 DEF PutObject
<1>3. ASSUME NEW d \in Doc, InsertRow(u, d) PROVE TypeInv'
  <2>0. up' \in [Upload -> [pc: {"idle", "checked", "stored", "inserted", "done"},
                           file: File \union {NoFile}, doc: Doc \union {NoDoc}]]
    <3> DEFINE r == [up[u] EXCEPT !.pc = "inserted", !.doc = d]
    <3>1. up' = [up EXCEPT ![u] = r]
      BY <1>3 DEF InsertRow
    <3>2. up[u] \in Uploads
      BY DEF Uploads
    <3>3. r \in Uploads
      BY <3>2, InsertedUpload
    <3> HIDE DEF r
    <3> QED
      BY <3>1, <3>3 DEF Uploads
  <2>1. TypeOK'
    BY <2>0, <1>3 DEF InsertRow
  <2>2. RunsAreCounted' /\ InsertedHasFile' /\ DeletersHold'
    BY <1>3 DEF InsertRow
  <2>3. \A v \in Upload : up[v].pc = "inserted" => up[v].doc # d
    BY <1>3 DEF InsertRow
  <2>4. /\ up'[u].pc = "inserted" /\ up'[u].file = up[u].file /\ up'[u].doc = d
        /\ up[u].pc = "stored"
        /\ \A v \in Upload : v # u => up'[v] = up[v]
    BY <1>0, <1>3 DEF InsertRow
  <2>5. UploadsHold'
    BY <1>3, <2>3, <2>4 DEF InsertRow
  <2> QED
    BY <2>1, <2>2, <2>5
<1>4. CASE Enqueue(u)
  BY <1>0, <1>4 DEF Enqueue, Answered
<1>5. CASE LoseUpload(u)
  BY <1>0, <1>5 DEF LoseUpload, Answered
<1> QED
  BY <1>1, <1>2, <1>3, <1>4, <1>5 DEF Uploading

LEMMA IngestingTypes ==
    ASSUME StoreAssumption, TypeInv, NEW d \in Doc, Ingesting(d) PROVE TypeInv'
<1> USE StoreAssumption DEF TypeInv, TypeOK, RunsAreCounted, InsertedHasFile,
            UploadsHold, DeletersHold, docVars, jobVars, delVars, Running
<1>e. ASSUME EndJob(d), job[d] # "none",
             UNCHANGED <<file, object, created, point, up, delVars, expired, swept>>,
             rows' \subseteq Doc \X Chunk,
             \/ UNCHANGED status
             \/ status[d] # "absent" /\ \E s \in {"ready", "error"} :
                                            status' = [status EXCEPT ![d] = s]
      PROVE  TypeInv'
  <2>1. TypeOK'
    BY <1>e DEF EndJob
  <2>2. RunsAreCounted'
    BY <1>e DEF EndJob
  <2>3. InsertedHasFile' /\ DeletersHold'
    BY <1>e DEF EndJob
  <2>4. UploadsHold'
    BY <1>e DEF EndJob
  <2> QED
    BY <2>1, <2>2, <2>3, <2>4
<1>1. CASE FetchObject(d)
  <2>1. CASE file[d] \in object
    BY <1>1, <2>1 DEF FetchObject
  <2>2. CASE file[d] \notin object
    BY <1>1, <1>e, <2>2 DEF FetchObject
  <2> QED
    BY <2>1, <2>2
<1>2. CASE ReadHashes(d)
  BY <1>2 DEF ReadHashes, Unembedded
<1>3. CASE Embed(d) \/ EnsureCollection(d)
  BY <1>3 DEF Embed, EnsureCollection
<1>4. CASE Upsert(d)
  BY <1>4 DEF Upsert
<1>5. CASE RecordChunks(d)
  <2>1. NewRows(d) \subseteq Doc \X Chunk
    BY DEF NewRows
  <2>2. CASE Present(d) \/ NewRows(d) = {}
    <3>0. rows' \subseteq Doc \X Chunk /\ job' \in [Doc -> {"none", "queued", "over"} \union Running]
          /\ fresh' \in [Doc -> SUBSET Chunk]
      BY <1>5, <2>1, <2>2 DEF RecordChunks
    <3>1. TypeOK'
      BY <1>5, <2>1, <2>2, <3>0 DEF RecordChunks
    <3>2. RunsAreCounted' /\ InsertedHasFile' /\ UploadsHold' /\ DeletersHold'
      BY <1>5, <2>2 DEF RecordChunks
    <3> QED
      BY <3>1, <3>2
  <2>3. CASE ~(Present(d) \/ NewRows(d) = {})
    BY <1>5, <1>e, <2>3 DEF RecordChunks
  <2> QED
    BY <2>2, <2>3
<1>6. CASE SetReady(d) \/ FailIngestion(d)
  BY <1>6, <1>e DEF SetReady, FailIngestion, SetStatus, Present
<1>7. CASE CrashWorker(d) \/ AbandonJob(d)
  <2>1. CASE RunsLeft(d) /\ CrashWorker(d)
    BY <2>1 DEF CrashWorker, RunsLeft
  <2>2. CASE EndJob(d)
    BY <1>7, <1>e, <2>2 DEF CrashWorker, AbandonJob
  <2> QED
    BY <1>7, <2>1, <2>2 DEF CrashWorker, AbandonJob
<1> QED
  BY <1>1, <1>2, <1>3, <1>4, <1>5, <1>6, <1>7 DEF Ingesting

LEMMA DeletingTypes ==
    ASSUME StoreAssumption, TypeInv, NEW x \in Deleter, Deleting(x) PROVE TypeInv'
<1> USE DEF TypeInv, TypeOK, RunsAreCounted, InsertedHasFile, UploadsHold,
            DeletersHold, docVars, jobVars, delVars
<1>1. CASE ListExpired(x)
  BY <1>1 DEF ListExpired, Due, Present
<1>2. ASSUME NEW S \in SUBSET Doc, ListSubject(x, S) PROVE TypeInv'
  BY <1>2 DEF ListSubject, Present
<1>3. ASSUME NEW d \in Doc, DeleteVectors(x, d) PROVE TypeInv'
  <2>1. CASE Home[file[d]] \in created
    <3>a. point' \in [Collection \X Chunk -> Doc \union {NoDoc}]
      BY <1>3, <2>1 DEF DeleteVectors
    <3>b. swept' \in [Doc -> {"no", "quiet", "racing"}]
      BY <1>3, <2>1 DEF DeleteVectors
    <3>0. /\ point' \in [Collection \X Chunk -> Doc \union {NoDoc}]
          /\ swept' \in [Doc -> {"no", "quiet", "racing"}]
      BY <3>a, <3>b
    <3>1. TypeOK'
      <4>1. /\ stage' \in [Deleter -> {"idle", "listed", "swept", "removed"}]
            /\ cur' \in [Deleter -> Doc \union {NoDoc}]
            /\ UNCHANGED <<docVars, rows, object, created, jobVars, up, todo, expired>>
        <5>1. /\ stage' = [stage EXCEPT ![x] = "swept"] /\ cur' = [cur EXCEPT ![x] = d]
              /\ UNCHANGED <<docVars, rows, object, created, jobVars, up, todo, expired>>
          BY <1>3, <2>1 DEF DeleteVectors
        <5> QED
          BY <5>1
      <4> QED
        BY <3>0, <4>1
    <3>2. RunsAreCounted' /\ InsertedHasFile' /\ UploadsHold'
      BY <1>3, <2>1 DEF DeleteVectors
    <3>3. DeletersHold'
      BY <1>3, <2>1 DEF DeleteVectors
    <3> QED
      BY <3>1, <3>2, <3>3
  <2>2. CASE Home[file[d]] \notin created
    <3>1. /\ stage' = [stage EXCEPT ![x] = "idle"] /\ todo' = [todo EXCEPT ![x] = {}]
          /\ UNCHANGED <<docVars, rows, object, created, point, jobVars, up, cur,
                         expired, swept>>
      BY <1>3, <2>2 DEF DeleteVectors
    <3> QED
      BY <3>1
  <2> QED
    BY <2>1, <2>2
<1>4. CASE RemoveObject(x)
  BY <1>4 DEF RemoveObject
<1>5. ASSUME NEW d \in Doc, DeleteRows(x, d) PROVE TypeInv'
  BY <1>5 DEF DeleteRows, ReadyForRows
<1>6. CASE LoseDeleter(x)
  BY <1>6 DEF LoseDeleter
<1> QED
  BY <1>1, <1>2, <1>3, <1>4, <1>5, <1>6 DEF Deleting, Delete

LEMMA TypeStep == ASSUME StoreAssumption, TypeInv, [Next]_vars PROVE TypeInv'
<1>1. ASSUME NEW d \in Doc, Expire(d) PROVE TypeInv'
  BY <1>1 DEF Expire, TypeInv, TypeOK, RunsAreCounted, InsertedHasFile,
              UploadsHold, DeletersHold, docVars, jobVars, delVars
<1>2. CASE UNCHANGED vars
  BY <1>2 DEF vars, TypeInv, TypeOK, RunsAreCounted, InsertedHasFile,
              UploadsHold, DeletersHold, docVars, jobVars, delVars
<1> QED
  BY <1>1, <1>2, UploadingTypes, IngestingTypes, DeletingTypes DEF Next

-----------------------------------------------------------------------------
(* Rows, and what a run is about to embed. *)

\* Steps that neither add nor remove a row: a run holds no more than before,
\* and nothing once it is past the record.
LEMMA RowFrame ==
    ASSUME RowInv, UNCHANGED <<file, rows>>,
           \A d \in Doc : Present(d)' <=> Present(d),
           \A d \in Doc : fresh'[d] \subseteq fresh[d],
           \A d \in Doc : job'[d] \notin Embedding => fresh'[d] = {}
    PROVE  RowInv'
BY DEF RowInv, FreshIsNew, OneRowPerFile, RowsArePresent

\* A job that ends leaves the rows and the documents that have one.
LEMMA EndJobRows ==
    ASSUME TypeInv, RowInv, NEW d \in Doc, EndJob(d), UNCHANGED <<file, rows>>,
           \/ UNCHANGED status
           \/ \E s \in {"ready", "error"} : SetStatus(d, s)
    PROVE  RowInv'
<1>1. \A e \in Doc : Present(e)' <=> Present(e)
  BY DEF SetStatus, Present, TypeInv, TypeOK
<1>2. /\ \A e \in Doc : fresh'[e] \subseteq fresh[e]
      /\ \A e \in Doc : job'[e] \notin Embedding => fresh'[e] = {}
  BY DEF EndJob, TypeInv, TypeOK, RowInv, FreshIsNew, Embedding
<1> QED
  BY <1>1, <1>2, RowFrame

LEMMA InsertRowRows ==
    ASSUME StoreAssumption, TypeInv, RowInv, NEW u \in Upload, NEW d \in Doc,
           InsertRow(u, d)
    PROVE  RowInv'
<1>1. /\ status[d] = "absent" /\ ~Taken(up[u].file)
      /\ status' = [status EXCEPT ![d] = "queued"]
      /\ file' = [file EXCEPT ![d] = up[u].file]
      /\ UNCHANGED <<rows, job, fresh>>
  BY DEF InsertRow, jobVars
<1>2. \A e \in Doc : e # d => /\ Present(e)' <=> Present(e)
                              /\ file'[e] = file[e]
  BY <1>1 DEF Present, TypeInv, TypeOK
<1>3. /\ ~Present(d) /\ job[d] = "none" /\ file'[d] = up[u].file
  BY <1>1 DEF Present, TypeInv, TypeOK, InsertedHasFile
<1>4. fresh[d] = {}
  BY <1>3 DEF RowInv, FreshIsNew, Embedding
<1>5. FreshIsNew'
  BY <1>1, <1>2, <1>4 DEF RowInv, FreshIsNew
<1>6. \A e \in Doc : Present(e) => file[e] # up[u].file
  BY <1>1 DEF Taken
<1>7. OneRowPerFile'
  BY <1>2, <1>3, <1>6 DEF RowInv, OneRowPerFile
<1>8. RowsArePresent'
  BY <1>1, <1>2, <1>3 DEF RowInv, RowsArePresent
<1> QED
  BY <1>5, <1>7, <1>8 DEF RowInv

LEMMA ReadHashesRows ==
    ASSUME TypeInv, RowInv, NEW d \in Doc, ReadHashes(d) PROVE RowInv'
<1>1. /\ fresh' = [fresh EXCEPT ![d] = Unembedded(d)]
      /\ job' = [job EXCEPT ![d] = IF Unembedded(d) = {} THEN "recorded" ELSE "scanned"]
      /\ UNCHANGED <<status, file, rows>>
  BY DEF ReadHashes, docVars
<1>2. FreshIsNew'
  BY <1>1 DEF TypeInv, TypeOK, RowInv, FreshIsNew, Unembedded, Embedding
<1>3. OneRowPerFile' /\ RowsArePresent'
  BY <1>1 DEF RowInv, OneRowPerFile, RowsArePresent, Present
<1> QED
  BY <1>2, <1>3 DEF RowInv

LEMMA RecordChunksRows ==
    ASSUME TypeInv, RowInv, NEW d \in Doc, RecordChunks(d) PROVE RowInv'
<1>1. job[d] = "upserted" /\ UNCHANGED <<status, file>>
  BY DEF RecordChunks, docVars
<1>2. CASE Present(d)
  <2>1. /\ rows' = rows \union NewRows(d)
        /\ job' = [job EXCEPT ![d] = "recorded"]
        /\ fresh' = [fresh EXCEPT ![d] = {}]
    BY <1>2 DEF RecordChunks
  <2>2. \A e \in Doc, k \in Chunk :
           <<e, k>> \in rows' => <<e, k>> \in rows \/ (e = d /\ k \in fresh[d])
    BY <2>1 DEF NewRows
  <2>3. FreshIsNew'
    <3>1. \A e \in Doc : e # d => fresh'[e] = fresh[e] /\ job'[e] = job[e]
      BY <2>1 DEF TypeInv, TypeOK
    <3>2. fresh'[d] = {}
      BY <2>1 DEF TypeInv, TypeOK
    <3>3. \A e \in Doc : e # d => \A k \in fresh'[e] : <<e, k>> \notin rows'
      BY <2>2, <3>1 DEF RowInv, FreshIsNew, TypeInv, TypeOK
    <3> QED
      BY <1>1, <3>1, <3>2, <3>3 DEF RowInv, FreshIsNew
  <2>4. OneRowPerFile'
    BY <1>1 DEF RowInv, OneRowPerFile, Present
  <2>5. RowsArePresent'
    BY <1>1, <1>2, <2>2 DEF RowInv, RowsArePresent, FreshIsNew, Present
  <2> QED
    BY <2>3, <2>4, <2>5 DEF RowInv
<1>3. CASE ~Present(d) /\ NewRows(d) = {}
  <2>1. /\ rows' = rows
        /\ job' = [job EXCEPT ![d] = "recorded"]
        /\ fresh' = [fresh EXCEPT ![d] = {}]
    BY <1>3 DEF RecordChunks
  <2>2. /\ \A e \in Doc : Present(e)' <=> Present(e)
        /\ \A e \in Doc : fresh'[e] \subseteq fresh[e]
        /\ \A e \in Doc : job'[e] \notin Embedding => fresh'[e] = {}
    BY <1>1, <2>1 DEF TypeInv, TypeOK, RowInv, FreshIsNew, Present
  <2> QED
    BY <1>1, <2>1, <2>2, RowFrame
<1>4. CASE ~Present(d) /\ NewRows(d) # {}
  BY <1>1, <1>4, EndJobRows DEF RecordChunks
<1> QED
  BY <1>2, <1>3, <1>4

LEMMA DeleteRowsRows ==
    ASSUME TypeInv, RowInv, NEW x \in Deleter, NEW d \in Doc, DeleteRows(x, d)
    PROVE  RowInv'
<1>1. /\ rows' = {dk \in rows : dk[1] # d}
      /\ status' = [status EXCEPT ![d] = "deleted"]
      /\ UNCHANGED <<file, job, fresh>>
  BY DEF DeleteRows, jobVars
<1>2. \A e \in Doc, k \in Chunk : <<e, k>> \in rows' => <<e, k>> \in rows /\ e # d
  BY <1>1
<1>3. \A e \in Doc : IF e = d THEN ~Present(e)' ELSE Present(e)' <=> Present(e)
  BY <1>1 DEF TypeInv, TypeOK, Present
<1>4. FreshIsNew'
  BY <1>1 DEF RowInv, FreshIsNew
<1>5. OneRowPerFile'
  BY <1>1, <1>3 DEF RowInv, OneRowPerFile
<1>6. RowsArePresent'
  BY <1>1, <1>2, <1>3 DEF RowInv, RowsArePresent
<1> QED
  BY <1>4, <1>5, <1>6 DEF RowInv

LEMMA RowStep ==
    ASSUME StoreAssumption, TypeInv, RowInv, [Next]_vars PROVE RowInv'
<1>f. ASSUME UNCHANGED <<docVars, rows, fresh>>,
             \A d \in Doc : job'[d] \notin Embedding => job[d] \notin Embedding
      PROVE  RowInv'
  BY <1>f, RowFrame DEF docVars, Present, RowInv, FreshIsNew
<1>1. ASSUME NEW u \in Upload, Uploading(u) PROVE RowInv'
  <2>1. CASE Enqueue(u)
    <3>1. job' = [job EXCEPT ![up[u].doc] = "queued"] /\ job[up[u].doc] = "none"
      BY <2>1 DEF Enqueue, TypeInv, UploadsHold
    <3>2. \A d \in Doc : job'[d] \notin Embedding => job[d] \notin Embedding
      BY <3>1 DEF Embedding, TypeInv, TypeOK
    <3> QED
      BY <1>f, <2>1, <3>2 DEF Enqueue
  <2>2. ASSUME NEW d \in Doc, InsertRow(u, d) PROVE RowInv'
    BY <2>2, InsertRowRows
  <2>3. CASE UNCHANGED <<docVars, rows, jobVars>>
    BY <1>f, <2>3 DEF jobVars
  <2> QED
    BY <1>1, <2>1, <2>2, <2>3 DEF Uploading, CheckExisting, PutObject, LoseUpload
<1>2. ASSUME NEW d \in Doc, Ingesting(d) PROVE RowInv'
  <2>1. CASE FetchObject(d) \/ CrashWorker(d) \/ AbandonJob(d)
    <3>1. CASE EndJob(d)
      BY <2>1, <3>1, EndJobRows DEF FetchObject, CrashWorker, AbandonJob, docVars
    <3>2. CASE ~EndJob(d)
      <4>1. /\ UNCHANGED <<docVars, rows>>
            /\ \E j \in {"fetched", "queued"} : job' = [job EXCEPT ![d] = j]
            /\ fresh' \in {fresh, [fresh EXCEPT ![d] = {}]}
            /\ job[d] = "queued" \/ fresh' = [fresh EXCEPT ![d] = {}]
        BY <2>1, <3>2 DEF FetchObject, CrashWorker, AbandonJob
      <4>2. /\ \A e \in Doc : fresh'[e] \subseteq fresh[e]
            /\ \A e \in Doc : job'[e] \notin Embedding => fresh'[e] = {}
        BY <4>1 DEF TypeInv, TypeOK, RowInv, FreshIsNew, Embedding
      <4> QED
        BY <4>1, <4>2, RowFrame DEF docVars, Present
    <3> QED
      BY <3>1, <3>2
  <2>2. CASE ReadHashes(d)
    BY <2>2, ReadHashesRows
  <2>3. CASE Embed(d) \/ EnsureCollection(d) \/ Upsert(d)
    <3>1. /\ UNCHANGED <<docVars, rows, fresh>>
          /\ \E j \in Embedding : job' = [job EXCEPT ![d] = j]
      BY <2>3 DEF Embed, EnsureCollection, Upsert, Embedding
    <3>2. \A e \in Doc : job'[e] \notin Embedding => job[e] \notin Embedding
      BY <3>1 DEF TypeInv, TypeOK
    <3> QED
      BY <1>f, <3>1, <3>2
  <2>4. CASE RecordChunks(d)
    BY <2>4, RecordChunksRows
  <2>5. CASE SetReady(d) \/ FailIngestion(d)
    BY <2>5, EndJobRows DEF SetReady, FailIngestion
  <2> QED
    BY <1>2, <2>1, <2>2, <2>3, <2>4, <2>5 DEF Ingesting
<1>3. ASSUME NEW x \in Deleter, Deleting(x) PROVE RowInv'
  <2>1. ASSUME NEW d \in Doc, DeleteRows(x, d) PROVE RowInv'
    BY <2>1, DeleteRowsRows
  <2>2. CASE UNCHANGED <<docVars, rows, jobVars>>
    BY <1>f, <2>2 DEF jobVars
  <2> QED
    BY <1>3, <2>1, <2>2 DEF Deleting, Delete, ListExpired, ListSubject,
                            DeleteVectors, RemoveObject, LoseDeleter
<1>4. CASE UNCHANGED <<docVars, rows, jobVars>>
  BY <1>f, <1>4 DEF jobVars
<1> QED
  BY <1>1, <1>2, <1>3, <1>4 DEF Next, Expire, vars

-----------------------------------------------------------------------------
(* Points, and what deletions swept. *)

\* The two steps that touch Qdrant.
LEMMA UpsertEffect ==
    ASSUME StoreAssumption, TypeInv, RowInv, NEW d \in Doc, Upsert(d)
    PROVE  /\ file[d] \in File /\ job[d] = "ensured"
           /\ UNCHANGED <<status, file, rows, swept, fresh>>
           /\ job' = [job EXCEPT ![d] = "upserted"]
           /\ \A c \in Collection, k \in Chunk :
                 point'[<<c, k>>] = IF c = Home[file[d]] /\ k \in fresh[d]
                                    THEN d ELSE point[<<c, k>>]
<1>1. job[d] = "ensured"
  BY DEF Upsert
<1>2. file[d] \in File
  BY <1>1 DEF TypeInv, TypeOK, InsertedHasFile
<1>3. point' = [ck \in Collection \X Chunk |->
                   IF ck \in {Home[file[d]]} \X fresh[d] THEN d ELSE point[ck]]
  BY DEF Upsert
<1>4. \A c \in Collection, k \in Chunk :
         point'[<<c, k>>] = IF c = Home[file[d]] /\ k \in fresh[d]
                            THEN d ELSE point[<<c, k>>]
  BY <1>3
<1> QED
  BY <1>1, <1>2, <1>4 DEF Upsert, docVars

LEMMA DeleteVectorsEffect ==
    ASSUME TypeInv, NEW x \in Deleter, NEW d \in Doc, DeleteVectors(x, d)
    PROVE  /\ UNCHANGED <<status, file, rows, job, fresh>>
           /\ \/ UNCHANGED <<point, swept>>
              \/ /\ \A c \in Collection, k \in Chunk :
                       point'[<<c, k>>] = IF c = Home[file[d]] /\ point[<<c, k>>] = d
                                          THEN NoDoc ELSE point[<<c, k>>]
                 /\ \A e \in Doc : e # d => swept'[e] = swept[e]
                 /\ swept'[d] = "racing" \/ (swept'[d] = "quiet" /\ job[d] = "over")
                 /\ status[d] # "absent"
<1>1. UNCHANGED <<status, file, rows, job, fresh>>
  BY DEF DeleteVectors, docVars, jobVars
<1>2. CASE Home[file[d]] \notin created
  BY <1>1, <1>2 DEF DeleteVectors
<1>3. CASE Home[file[d]] \in created
  <2>1. /\ point' = [ck \in Collection \X Chunk |->
                        IF ck[1] = Home[file[d]] /\ point[ck] = d THEN NoDoc ELSE point[ck]]
        /\ swept' = [swept EXCEPT ![d] =
                        IF job[d] = "over" /\ @ # "racing" THEN "quiet" ELSE "racing"]
        /\ d \in todo[x]
    BY <1>3 DEF DeleteVectors
  <2>2. \A c \in Collection, k \in Chunk :
           point'[<<c, k>>] = IF c = Home[file[d]] /\ point[<<c, k>>] = d
                              THEN NoDoc ELSE point[<<c, k>>]
    BY <2>1
  <2>3. /\ \A e \in Doc : e # d => swept'[e] = swept[e]
        /\ swept'[d] = "racing" \/ (swept'[d] = "quiet" /\ job[d] = "over")
    BY <2>1 DEF TypeInv, TypeOK
  <2>4. status[d] # "absent"
    BY <2>1 DEF TypeInv, DeletersHold
  <2> QED
    BY <1>1, <2>2, <2>3, <2>4
<1> QED
  BY <1>2, <1>3

LEMMA UpsertPoints ==
    ASSUME StoreAssumption, TypeInv, RowInv, PointInv, NEW d \in Doc, Upsert(d)
    PROVE  PointInv'
<1> USE UpsertEffect
<1>1. NoDoc \notin Doc
  BY StoreAssumption
<1>2. PointsAreHome'
  <2>1. \A k \in fresh[d] : k \in Content[file[d]]
    BY DEF RowInv, FreshIsNew
  <2> QED
    BY <1>1, <2>1 DEF PointInv, PointsAreHome
<1>3. QuietIsSettled'
  <2>1. swept[d] # "quiet"
    BY DEF PointInv, QuietIsSettled
  <2> QED
    BY <2>1 DEF PointInv, QuietIsSettled, TypeInv, TypeOK
<1>4. DeletedIsSwept'
  BY DEF PointInv, DeletedIsSwept
<1> QED
  BY <1>2, <1>3, <1>4 DEF PointInv

LEMMA DeleteVectorsPoints ==
    ASSUME StoreAssumption, TypeInv, PointInv, NEW x \in Deleter, NEW d \in Doc,
           DeleteVectors(x, d)
    PROVE  PointInv'
<1> USE DeleteVectorsEffect
<1>1. NoDoc \notin Doc
  BY StoreAssumption
<1>2. CASE UNCHANGED <<point, swept>>
  BY <1>2 DEF PointInv, PointsAreHome, QuietIsSettled, DeletedIsSwept
<1>3. CASE ~ UNCHANGED <<point, swept>>
  <2>1. PointsAreHome'
    BY <1>3 DEF PointInv, PointsAreHome
  <2>2. QuietIsSettled'
    BY <1>1, <1>3 DEF PointInv, PointsAreHome, QuietIsSettled
  <2>3. DeletedIsSwept'
    BY <1>3 DEF PointInv, DeletedIsSwept
  <2> QED
    BY <2>1, <2>2, <2>3 DEF PointInv
<1> QED
  BY <1>2, <1>3

\* Steps that leave Qdrant alone: a job that is over stays over, a document that
\* is deleted was swept, and a document with points keeps its file.
LEMMA PointFrame ==
    ASSUME StoreAssumption, TypeInv, PointInv, UNCHANGED <<point, swept>>,
           \A d \in Doc : job[d] = "over" => job'[d] = "over",
           \A d \in Doc : status'[d] = "deleted" =>
                             status[d] = "deleted" \/ swept[d] # "no",
           \A d \in Doc : status[d] # "absent" => file'[d] = file[d]
    PROVE  PointInv'
<1>1. PointsAreHome'
  <2>1. SUFFICES ASSUME NEW c \in Collection, NEW k \in Chunk, point[<<c, k>>] # NoDoc
                 PROVE  file'[point[<<c, k>>]] = file[point[<<c, k>>]]
    BY DEF PointInv, PointsAreHome
  <2>2. point[<<c, k>>] \in Doc
    BY <2>1 DEF TypeInv, TypeOK
  <2>3. file[point[<<c, k>>]] \in File
    BY <2>1 DEF PointInv, PointsAreHome
  <2>4. status[point[<<c, k>>]] # "absent"
    BY <2>2, <2>3, StoreAssumption DEF TypeInv, InsertedHasFile
  <2> QED
    BY <2>2, <2>4
<1>2. QuietIsSettled' /\ DeletedIsSwept'
  BY DEF PointInv, QuietIsSettled, DeletedIsSwept
<1> QED
  BY <1>1, <1>2 DEF PointInv

LEMMA PointStep ==
    ASSUME StoreAssumption, TypeInv, RowInv, PointInv, [Next]_vars PROVE PointInv'
<1>f. ASSUME UNCHANGED <<docVars, jobVars, point, swept>> PROVE PointInv'
  BY <1>f, PointFrame DEF docVars, jobVars
<1>1. ASSUME NEW u \in Upload, Uploading(u) PROVE PointInv'
  <2>1. ASSUME NEW d \in Doc, InsertRow(u, d) PROVE PointInv'
    <3>1. /\ status[d] = "absent" /\ status' = [status EXCEPT ![d] = "queued"]
          /\ file' = [file EXCEPT ![d] = up[u].file]
          /\ UNCHANGED <<point, swept, job>>
      BY <2>1 DEF InsertRow, jobVars
    <3>2. /\ \A e \in Doc : status'[e] = "deleted" => status[e] = "deleted"
          /\ \A e \in Doc : status[e] # "absent" => file'[e] = file[e]
      BY <3>1 DEF TypeInv, TypeOK
    <3> QED
      BY <3>1, <3>2, PointFrame
  <2>2. CASE Enqueue(u)
    <3>1. /\ job' = [job EXCEPT ![up[u].doc] = "queued"] /\ job[up[u].doc] = "none"
          /\ UNCHANGED <<docVars, point, swept>>
      BY <2>2 DEF Enqueue, TypeInv, UploadsHold
    <3>2. \A d \in Doc : job[d] = "over" => job'[d] = "over"
      BY <3>1 DEF TypeInv, TypeOK
    <3> QED
      BY <3>1, <3>2, PointFrame DEF docVars
  <2>3. CASE UNCHANGED <<docVars, jobVars, point, swept>>
    BY <1>f, <2>3
  <2> QED
    BY <1>1, <2>1, <2>2, <2>3 DEF Uploading, CheckExisting, PutObject, LoseUpload
<1>2. ASSUME NEW d \in Doc, Ingesting(d) PROVE PointInv'
  <2>1. CASE Upsert(d)
    BY <2>1, UpsertPoints
  <2>2. CASE ~Upsert(d)
    <3>1. /\ job[d] # "over" /\ UNCHANGED <<file, point, swept>>
          /\ \E j \in {"queued", "over"} \union Running : job' = [job EXCEPT ![d] = j]
      BY <1>2, <2>2 DEF Ingesting, FetchObject, ReadHashes, Embed, EnsureCollection,
         RecordChunks, SetReady, FailIngestion, CrashWorker, AbandonJob, EndJob,
         Running, docVars
    <3>2. \/ UNCHANGED status
          \/ \E s \in {"ready", "error"} : SetStatus(d, s)
      BY <1>2, <2>2 DEF Ingesting, FetchObject, ReadHashes, Embed, EnsureCollection,
         RecordChunks, SetReady, FailIngestion, CrashWorker, AbandonJob, docVars
    <3>3. /\ \A e \in Doc : job[e] = "over" => job'[e] = "over"
          /\ \A e \in Doc : status'[e] = "deleted" => status[e] = "deleted"
      BY <3>1, <3>2 DEF SetStatus, TypeInv, TypeOK
    <3> QED
      BY <3>1, <3>3, PointFrame
  <2> QED
    BY <2>1, <2>2
<1>3. ASSUME NEW x \in Deleter, Deleting(x) PROVE PointInv'
  <2>1. ASSUME NEW d \in Doc, DeleteVectors(x, d) PROVE PointInv'
    BY <2>1, DeleteVectorsPoints
  <2>2. ASSUME NEW d \in Doc, DeleteRows(x, d) PROVE PointInv'
    <3>1. /\ status' = [status EXCEPT ![d] = "deleted"]
          /\ stage[x] = "removed" /\ d = cur[x]
          /\ UNCHANGED <<file, job, point, swept>>
      BY <2>2 DEF DeleteRows, ReadyForRows, jobVars
    <3>2. swept[d] # "no"
      BY <3>1 DEF TypeInv, DeletersHold
    <3>3. \A e \in Doc : status'[e] = "deleted" => status[e] = "deleted" \/ swept[e] # "no"
      BY <3>1, <3>2 DEF TypeInv, TypeOK
    <3> QED
      BY <3>1, <3>3, PointFrame
  <2>3. CASE UNCHANGED <<docVars, jobVars, point, swept>>
    BY <1>f, <2>3
  <2> QED
    BY <1>3, <2>1, <2>2, <2>3 DEF Deleting, Delete, ListExpired, ListSubject,
                                  RemoveObject, LoseDeleter
<1>4. CASE UNCHANGED <<docVars, jobVars, point, swept>>
  BY <1>f, <1>4
<1> QED
  BY <1>1, <1>2, <1>3, <1>4 DEF Next, Expire, vars
-----------------------------------------------------------------------------
(* What is found stays found, from the upsert to the status. *)

LEMMA QdrantSteps ==
    ASSUME [Next]_vars
    PROVE  \/ UNCHANGED <<point, swept>>
           \/ \E d \in Doc : Upsert(d)
           \/ \E x \in Deleter, d \in Doc : DeleteVectors(x, d)
<1>1. ASSUME NEW u \in Upload, Uploading(u) PROVE UNCHANGED <<point, swept>>
  BY <1>1 DEF Uploading, CheckExisting, PutObject, InsertRow, Enqueue, LoseUpload
<1>2. ASSUME NEW d \in Doc, Ingesting(d), ~Upsert(d) PROVE UNCHANGED <<point, swept>>
  BY <1>2 DEF Ingesting, FetchObject, ReadHashes, Embed, EnsureCollection,
              RecordChunks, SetReady, FailIngestion, CrashWorker, AbandonJob
<1>3. ASSUME NEW x \in Deleter, Deleting(x), ~\E d \in Doc : DeleteVectors(x, d)
      PROVE  UNCHANGED <<point, swept>>
  BY <1>3 DEF Deleting, Delete, ListExpired, ListSubject, RemoveObject,
              DeleteRows, LoseDeleter
<1> QED
  BY <1>1, <1>2, <1>3 DEF Next, Expire, vars

LEMMA FileIsKept ==
    ASSUME StoreAssumption, TypeInv, [Next]_vars, NEW d \in Doc, file[d] \in File
    PROVE  file'[d] = file[d]
<1>1. ASSUME NEW u \in Upload, Uploading(u) PROVE file'[d] = file[d]
  <2>1. ASSUME NEW e \in Doc, InsertRow(u, e) PROVE file'[d] = file[d]
    BY <2>1, StoreAssumption DEF InsertRow, TypeInv, TypeOK, InsertedHasFile
  <2> QED
    BY <1>1, <2>1 DEF Uploading, CheckExisting, PutObject, Enqueue, LoseUpload, docVars
<1>2. ASSUME NEW e \in Doc, Ingesting(e) PROVE file'[d] = file[d]
  BY <1>2 DEF Ingesting, FetchObject, ReadHashes, Embed, EnsureCollection, Upsert,
              RecordChunks, SetReady, FailIngestion, CrashWorker, AbandonJob, docVars
<1>3. ASSUME NEW x \in Deleter, Deleting(x) PROVE file'[d] = file[d]
  BY <1>3 DEF Deleting, Delete, ListExpired, ListSubject, DeleteVectors, RemoveObject,
              DeleteRows, LoseDeleter, docVars
<1> QED
  BY <1>1, <1>2, <1>3 DEF Next, Expire, vars, docVars

LEMMA FoundGrows ==
    ASSUME StoreAssumption, TypeInv, RowInv, PointInv, [Next]_vars,
           NEW c \in Collection, NEW k \in Chunk, Found(c, k)
    PROVE  Found(c, k)'
<1>1. \A d \in Doc : file[d] \in File => file'[d] = file[d]
  BY FileIsKept
<1>2. CASE UNCHANGED <<point, swept>>
  BY <1>1, <1>2 DEF Found
<1>3. ASSUME NEW d \in Doc, Upsert(d) PROVE Found(c, k)'
  <2>1. /\ UNCHANGED swept
        /\ point'[<<c, k>>] = d \/ point'[<<c, k>>] = point[<<c, k>>]
        /\ d # NoDoc
    BY <1>3, UpsertEffect, StoreAssumption
  <2> QED
    BY <1>1, <2>1 DEF Found
<1>4. ASSUME NEW x \in Deleter, NEW d \in Doc, DeleteVectors(x, d) PROVE Found(c, k)'
  <2>1. CASE UNCHANGED <<point, swept>>
    BY <1>2, <2>1
  <2>2. CASE ~ UNCHANGED <<point, swept>>
    <3>1. /\ point'[<<c, k>>] = IF c = Home[file[d]] /\ point[<<c, k>>] = d
                               THEN NoDoc ELSE point[<<c, k>>]
          /\ \A e \in Doc : e # d => swept'[e] = swept[e]
          /\ swept'[d] # "no"
      BY <1>4, <2>2, DeleteVectorsEffect
    <3>2. \A e \in Doc : swept[e] # "no" => swept'[e] # "no"
      BY <3>1
    <3>3. CASE point[<<c, k>>] = d
      <4>1. d # NoDoc
        BY StoreAssumption
      <4>2. file[d] \in File /\ Home[file[d]] = c /\ k \in Content[file[d]]
        BY <3>3, <4>1 DEF PointInv, PointsAreHome
      <4> QED
        BY <1>1, <3>1, <4>2 DEF Found
    <3>4. CASE point[<<c, k>>] # d
      BY <1>1, <3>1, <3>2, <3>4 DEF Found
    <3> QED
      BY <3>3, <3>4
  <2> QED
    BY <2>1, <2>2
<1> QED
  BY <1>2, <1>3, <1>4, QdrantSteps

\* A document that holds a chunk held it already, or upserts it in this step.
LEMMA HeldStep ==
    ASSUME StoreAssumption, TypeInv, RowInv, [Next]_vars, NEW d \in Doc,
           file'[d] \in File, NEW k \in Content[file'[d]], k \in Chunk, Held(d, k)'
    PROVE  /\ file'[d] = file[d]
           /\ Held(d, k) \/ (Upsert(d) /\ k \in fresh[d])
<1>f. ASSUME file'[d] = file[d], <<d, k>> \in rows' => <<d, k>> \in rows,
             status'[d] = "ready" => status[d] = "ready",
             job'[d] \in {"none", "queued", "over", "fetched"}
             \/ (job'[d] = job[d] /\ fresh'[d] = fresh[d])
      PROVE  Held(d, k)
  BY <1>f DEF Held, Embedding
<1>1. ASSUME NEW u \in Upload, Uploading(u)
      PROVE  file'[d] = file[d] /\ Held(d, k)
  <2>1. ASSUME NEW e \in Doc, InsertRow(u, e)
        PROVE  file'[d] = file[d] /\ Held(d, k)
    <3>1. /\ status[e] = "absent" /\ status' = [status EXCEPT ![e] = "queued"]
          /\ file' = [file EXCEPT ![e] = up[u].file]
          /\ UNCHANGED <<rows, job, fresh>>
      BY <2>1 DEF InsertRow, jobVars
    <3>2. CASE e = d
      <4>1. job[d] = "none" /\ ~Present(d) /\ status'[d] = "queued"
        BY <3>1, <3>2 DEF Present, TypeInv, TypeOK, InsertedHasFile
      <4>2. <<d, k>> \notin rows
        BY <4>1 DEF RowInv, RowsArePresent
      <4> QED
        BY <3>1, <4>1, <4>2 DEF Held, Embedding
    <3>3. CASE e # d
      <4>1. status'[d] = status[d] /\ file'[d] = file[d]
        BY <3>1, <3>3 DEF TypeInv, TypeOK
      <4> QED
        BY <1>f, <3>1, <4>1
    <3> QED
      BY <3>2, <3>3
  <2>2. CASE Enqueue(u)
    <3>1. job' = [job EXCEPT ![up[u].doc] = "queued"] /\ UNCHANGED <<docVars, rows, fresh>>
      BY <2>2 DEF Enqueue
    <3>2. job'[d] = "queued" \/ job'[d] = job[d]
      BY <3>1 DEF TypeInv, TypeOK
    <3> QED
      BY <1>f, <3>1, <3>2 DEF docVars
  <2>3. CASE UNCHANGED <<docVars, rows, jobVars>>
    BY <1>f, <2>3 DEF docVars, jobVars
  <2> QED
    BY <1>1, <2>1, <2>2, <2>3 DEF Uploading, CheckExisting, PutObject, LoseUpload
<1>2. ASSUME NEW e \in Doc, Ingesting(e)
      PROVE  /\ file'[d] = file[d]
             /\ Held(d, k) \/ (Upsert(d) /\ k \in fresh[d])
  <2>0. UNCHANGED file
    BY <1>2 DEF Ingesting, FetchObject, ReadHashes, Embed, EnsureCollection, Upsert,
         RecordChunks, SetReady, FailIngestion, CrashWorker, AbandonJob, docVars
  <2>1. CASE e # d
    <3>1. job'[d] = job[d] /\ fresh'[d] = fresh[d] /\ status'[d] = status[d]
      <4>1. /\ \E j \in {"none", "queued", "over"} \union Running :
                 job' = [job EXCEPT ![e] = j]
            /\ \E S \in SUBSET Chunk : fresh' = fresh \/ fresh' = [fresh EXCEPT ![e] = S]
            /\ UNCHANGED status \/ \E s \in {"ready", "error"} : SetStatus(e, s)
        <5>1. CASE ReadHashes(e)
          <6>1. /\ fresh' = [fresh EXCEPT ![e] = Unembedded(e)]
                /\ \E j \in {"recorded", "scanned"} : job' = [job EXCEPT ![e] = j]
                /\ UNCHANGED status /\ job[e] = "fetched"
            BY <5>1 DEF ReadHashes, docVars
          <6>2. Unembedded(e) \subseteq Chunk
            <7>1. file[e] \in File
              BY <6>1 DEF TypeInv, InsertedHasFile
            <7> QED
              BY <7>1, StoreAssumption DEF Unembedded
          <6> QED
            BY <6>1, <6>2 DEF Running
        <5>2. CASE ~ReadHashes(e)
          BY <1>2, <5>2 DEF Ingesting, FetchObject, Embed, EnsureCollection, Upsert,
             RecordChunks, SetReady, FailIngestion, CrashWorker, AbandonJob, EndJob,
             Running, docVars
        <5> QED
          BY <5>1, <5>2
      <4> QED
        BY <2>1, <4>1 DEF SetStatus, TypeInv, TypeOK
    <3>2. <<d, k>> \in rows' => <<d, k>> \in rows
      <4>1. CASE RecordChunks(e)
        BY <2>1, <4>1 DEF RecordChunks, NewRows
      <4>2. CASE UNCHANGED rows
        BY <4>2
      <4> QED
        BY <1>2, <4>1, <4>2 DEF Ingesting, FetchObject, ReadHashes, Embed,
           EnsureCollection, Upsert, SetReady, FailIngestion, CrashWorker, AbandonJob
    <3> QED
      BY <1>f, <2>0, <3>1, <3>2
  <2>2. CASE e = d
    <3>1. CASE ReadHashes(d)
      <4>1. /\ fresh'[d] = Unembedded(d)
            /\ job'[d] = IF Unembedded(d) = {} THEN "recorded" ELSE "scanned"
            /\ UNCHANGED <<status, rows>>
        BY <3>1 DEF ReadHashes, docVars, TypeInv, TypeOK
      <4>2. k \notin Unembedded(d) => <<d, k>> \in rows
        BY <2>0 DEF Unembedded
      <4> QED
        BY <2>0, <4>1, <4>2 DEF Held, Embedding
    <3>2. CASE Embed(d) \/ EnsureCollection(d)
      <4>1. /\ job[d] \in Embedding
            /\ job'[d] \in {"embedded", "ensured"}
            /\ UNCHANGED <<status, rows, fresh>>
        BY <3>2 DEF Embed, EnsureCollection, docVars, Embedding, TypeInv, TypeOK
      <4> QED
        BY <2>0, <4>1 DEF Held
    <3>3. CASE Upsert(d)
      BY <2>0, <3>3 DEF Upsert, Held, Embedding, docVars
    <3>4. CASE RecordChunks(d)
      BY <2>0, <3>4 DEF RecordChunks, Held
    <3>5. CASE SetReady(d)
      BY <2>0, <3>5 DEF SetReady, Held
    <3>6. CASE FetchObject(d) \/ FailIngestion(d) \/ CrashWorker(d) \/ AbandonJob(d)
      <4>1. job'[d] \in {"queued", "over", "fetched"} /\ UNCHANGED rows
        BY <3>6 DEF FetchObject, FailIngestion, CrashWorker, AbandonJob, EndJob,
                    TypeInv, TypeOK
      <4>2. status'[d] = "ready" => status[d] = "ready"
        BY <3>6 DEF FetchObject, FailIngestion, CrashWorker, AbandonJob, SetStatus,
                    docVars, TypeInv, TypeOK
      <4> QED
        BY <1>f, <2>0, <4>1, <4>2
    <3> QED
      BY <1>2, <2>2, <3>1, <3>2, <3>3, <3>4, <3>5, <3>6, <2>0 DEF Ingesting
  <2> QED
    BY <2>1, <2>2
<1>3. ASSUME NEW x \in Deleter, Deleting(x)
      PROVE  file'[d] = file[d] /\ Held(d, k)
  <2>1. UNCHANGED <<file, jobVars>> /\ rows' \subseteq rows
    BY <1>3 DEF Deleting, Delete, ListExpired, ListSubject, DeleteVectors,
                RemoveObject, DeleteRows, LoseDeleter, docVars
  <2>2. \/ UNCHANGED status
        \/ \E e \in Doc : status' = [status EXCEPT ![e] = "deleted"]
    BY <1>3 DEF Deleting, Delete, ListExpired, ListSubject, DeleteVectors,
                RemoveObject, DeleteRows, LoseDeleter, docVars
  <2>3. status'[d] = "ready" => status[d] = "ready"
    BY <2>2 DEF TypeInv, TypeOK
  <2> QED
    BY <1>f, <2>1, <2>3 DEF jobVars
<1>4. CASE UNCHANGED <<docVars, rows, jobVars>>
  BY <1>f, <1>4 DEF docVars, jobVars
<1> QED
  BY <1>1, <1>2, <1>3, <1>4 DEF Next, Expire, vars

LEMMA FoundStep ==
    ASSUME StoreAssumption, TypeInv, RowInv, PointInv, ChunksAreFound, [Next]_vars
    PROVE  ChunksAreFound'
<1>1. SUFFICES ASSUME NEW d \in Doc, file'[d] \in File,
                      NEW k \in Content[file'[d]], Held(d, k)'
               PROVE  \A c \in Collection : c = Home[file'[d]] => Found(c, k)'
  BY StoreAssumption DEF ChunksAreFound, Found
<1>2. k \in Chunk /\ Home[file'[d]] \in Collection
  BY <1>1, StoreAssumption
<1>3. /\ file'[d] = file[d]
      /\ Held(d, k) \/ (Upsert(d) /\ k \in fresh[d])
  BY <1>1, <1>2, HeldStep
<1>4. CASE Held(d, k)
  <2> SUFFICES ASSUME NEW c \in Collection, c = Home[file[d]] PROVE Found(c, k)'
    BY <1>3
  <2>1. Found(c, k)
    BY <1>1, <1>3, <1>4 DEF ChunksAreFound
  <2> QED
    BY <1>2, <2>1, FoundGrows
<1>5. CASE Upsert(d) /\ k \in fresh[d]
  <2>1. point'[<<Home[file[d]], k>>] = d /\ d # NoDoc
    BY <1>2, <1>3, <1>5, UpsertEffect, StoreAssumption
  <2> QED
    BY <1>3, <2>1 DEF Found
<1> QED
  BY <1>3, <1>4, <1>5

-----------------------------------------------------------------------------

\* The inductive invariant holds in every state.
THEOREM Invariant == ASSUME StoreAssumption PROVE Spec => []DocInv
<1>1. Init => DocInv
  BY DocInit
<1>2. DocInv /\ [Next]_vars => DocInv'
  BY TypeStep, RowStep, PointStep, FoundStep DEF DocInv
<1> QED
  BY <1>1, <1>2, PTL DEF Spec

\* Types: every store, job, upload and deletion keeps to its range; above all a
\* job's runs stay within arq's bound.
THEOREM TypeCorrect == ASSUME StoreAssumption PROVE Spec => []TypeOK
<1>1. DocInv => TypeOK
  BY DEF DocInv, TypeInv
<1> QED
  BY <1>1, Invariant, PTL

\* A document that says "ready" can be found in Qdrant, chunk by chunk, however
\* often its worker died between the upsert, the rows and the status, unless a
\* deletion swept a document of its collection that held the same chunk.
THEOREM ReadySearchable == ASSUME StoreAssumption PROVE Spec => []ReadyIsSearchable
<1>1. DocInv => ReadyIsSearchable
  <2> SUFFICES ASSUME DocInv, NEW d \in Doc, status[d] = "ready",
                      NEW k \in Content[file[d]],
                      point[<<Home[file[d]], k>>] = NoDoc
               PROVE  \E e \in Doc : /\ swept[e] # "no"
                                     /\ Home[file[e]] = Home[file[d]]
                                     /\ k \in Content[file[e]]
    BY DEF ReadyIsSearchable
  <2>1. file[d] \in File
    BY DEF DocInv, TypeInv, InsertedHasFile
  <2>2. Found(Home[file[d]], k)
    BY <2>1 DEF DocInv, ChunksAreFound, Held
  <2> QED
    BY <2>2 DEF Found
<1> QED
  BY <1>1, Invariant, PTL

\* A document that erase_subject or the purge deleted has no chunk row, and no
\* point unless Qdrant was swept before its ingestion was over.
THEOREM GoneClean == ASSUME StoreAssumption PROVE Spec => []GoneIsClean
<1>1. DocInv => GoneIsClean
  <2> SUFFICES ASSUME DocInv, NEW d \in Doc, status[d] = "deleted"
               PROVE  /\ \A k \in Chunk : <<d, k>> \notin rows
                      /\ swept[d] # "racing" => Points(d) = {}
    BY DEF GoneIsClean
  <2>1. \A k \in Chunk : <<d, k>> \notin rows
    BY DEF DocInv, RowInv, RowsArePresent, Present
  <2>2. ASSUME swept[d] # "racing" PROVE Points(d) = {}
    <3>1. swept[d] = "quiet"
      BY <2>2 DEF DocInv, TypeInv, TypeOK, PointInv, DeletedIsSwept
    <3>2. \A c \in Collection, k \in Chunk : point[<<c, k>>] # d
      BY <3>1 DEF DocInv, PointInv, QuietIsSettled
    <3> QED
      BY <3>2 DEF Points
  <2> QED
    BY <2>1, <2>2
<1> QED
  BY <1>1, Invariant, PTL

\* The chunks a live document's job pays to embed have no row under a document
\* of the same file, at a first run or a repeated one.
THEOREM NothingReembedded ==
    ASSUME StoreAssumption PROVE Spec => NothingRecordedIsReembedded
<1>1. ASSUME DocInv, NEW d \in Doc, Present(d),
             NEW e \in Doc, NEW k \in fresh[d], file[e] = file[d]
      PROVE  <<e, k>> \notin rows
  <2>1. <<d, k>> \notin rows
    BY <1>1 DEF DocInv, RowInv, FreshIsNew
  <2>2. k \in Chunk
    BY <1>1 DEF DocInv, TypeInv, TypeOK
  <2>3. <<e, k>> \in rows => e = d
    BY <1>1, <2>2 DEF DocInv, RowInv, RowsArePresent, OneRowPerFile
  <2> QED
    BY <2>1, <2>3
<1>2. DocInv => \A d \in Doc :
                   Present(d) /\ job[d] = "scanned" /\ job'[d] = "embedded" =>
                       \A e \in Doc, k \in fresh[d] :
                           file[e] = file[d] => <<e, k>> \notin rows
  BY <1>1
<1> QED
  BY <1>2, Invariant, PTL DEF NothingRecordedIsReembedded
=============================================================================
