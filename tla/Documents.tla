------------------------------ MODULE Documents ------------------------------
(***************************************************************************)
(* A document's life in the knowledge store: upload, ingestion, retention  *)
(* and erasure.                                                            *)
(*                                                                         *)
(* Four stores hold pieces of a document and share no transaction: MinIO   *)
(* (the file, under a content-addressed key), Postgres (`documents` and    *)
(* `chunks` rows), Qdrant (one point per chunk and collection, labelled    *)
(* with the document that upserted it last) and the arq queue.  Uploads,   *)
(* the ingest worker, the nightly purge and erase_subject each walk        *)
(* through them call by call, may overlap, and may stop between two calls. *)
(***************************************************************************)
EXTENDS Naturals, FiniteSets

CONSTANTS
    Doc,            \* ids of `documents`; the sequence never reuses one
    File,           \* files as uploaded into one collection: MinIO keys
    Chunk,          \* content_sha256 values
    Collection,
    Home,           \* Home[f]: the collection f is uploaded into
    Content,        \* Content[f]: the chunks of f that its pii_policy keeps
    Retained,       \* the collections whose retention_days is set
    Upload,         \* calls of POST /v1/documents
    Eraser,         \* calls of DELETE /v1/subjects/{hash}
    Cron,           \* the nightly purge
    MaxTries,       \* arq's bound on the runs of one job
    NoDoc, NoFile

ASSUME StoreAssumption ==
    /\ Home \in [File -> Collection]
    /\ Content \in [File -> SUBSET Chunk]
    /\ Retained \subseteq Collection
    /\ MaxTries \in Nat \ {0}
    /\ Cron \notin Eraser
    /\ NoDoc \notin Doc /\ NoFile \notin File

Deleter == Eraser \union {Cron}

VARIABLES
    status,     \* status[d]: documents.status, "absent" before and "deleted" after
    file,       \* file[d]: the file d was inserted for
    rows,       \* `chunks`: pairs of a document and a chunk
    object,     \* the files MinIO holds
    created,    \* the collections that exist in Qdrant
    point,      \* point[c, k]: payload.document_id of k's point in collection c
    job,        \* job[d]: how far d's ingest_document has got
    tries,      \* tries[d]: the runs of that job
    fresh,      \* fresh[d]: the chunks its current run found not yet embedded
    up,         \* up[u]: how far upload u has got, with what
    stage,      \* stage[x]: how far deleter x is with the document cur[x]
    todo,       \* todo[x]: the rows its query returned, less those it finished
    cur,
    expired,    \* the documents past their collection's retention window
    swept       \* swept[d]: whether a deletion removed d's points, and whether
                \* one did so before d's job was over (history)

docVars == <<status, file>>
jobVars == <<job, tries, fresh>>
delVars == <<stage, todo, cur>>
vars == <<docVars, rows, object, created, point, jobVars, up, delVars, expired, swept>>

Present(d) == status[d] \in {"queued", "ready", "error"}

\* The points labelled d, and the chunks that have a row of whatever document.
Points(d) == {ck \in Collection \X Chunk : point[ck] = d}
Recorded  == {dk[2] : dk \in rows}

Init ==
    /\ status = [d \in Doc |-> "absent"]
    /\ file = [d \in Doc |-> NoFile]
    /\ rows = {} /\ object = {} /\ created = {}
    /\ point = [ck \in Collection \X Chunk |-> NoDoc]
    /\ job = [d \in Doc |-> "none"]
    /\ tries = [d \in Doc |-> 0]
    /\ fresh = [d \in Doc |-> {}]
    /\ up = [u \in Upload |-> [pc |-> "idle", file |-> NoFile, doc |-> NoDoc]]
    /\ stage = [x \in Deleter |-> "idle"]
    /\ todo = [x \in Deleter |-> {}]
    /\ cur = [x \in Deleter |-> NoDoc]
    /\ expired = {}
    /\ swept = [d \in Doc |-> "no"]

-----------------------------------------------------------------------------
(* upload_document *)

Answered == [pc |-> "done", file |-> NoFile, doc |-> NoDoc]

\* The lookup by (collection, sha256): a file that has a row is answered with it.
CheckExisting(u, f) ==
    /\ up[u].pc = "idle"
    /\ up' = [up EXCEPT ![u] = IF \E d \in Doc : Present(d) /\ file[d] = f
                               THEN Answered
                               ELSE [pc |-> "checked", file |-> f, doc |-> NoDoc]]
    /\ UNCHANGED <<docVars, rows, object, created, point, jobVars, delVars, expired, swept>>

PutObject(u) ==
    /\ up[u].pc = "checked"
    /\ object' = object \union {up[u].file}
    /\ up' = [up EXCEPT ![u].pc = "stored"]
    /\ UNCHANGED <<docVars, rows, created, point, jobVars, delVars, expired, swept>>

\* uq_documents_collection_sha refuses a second row for a file.
Taken(f) == \E d \in Doc : Present(d) /\ file[d] = f

InsertRow(u, d) ==
    /\ up[u].pc = "stored" /\ status[d] = "absent"
    /\ ~Taken(up[u].file)
    /\ status' = [status EXCEPT ![d] = "queued"]
    /\ file' = [file EXCEPT ![d] = up[u].file]
    /\ up' = [up EXCEPT ![u].pc = "inserted", ![u].doc = d]
    /\ UNCHANGED <<rows, object, created, point, jobVars, delVars, expired, swept>>

Enqueue(u) ==
    /\ up[u].pc = "inserted"
    /\ job' = [job EXCEPT ![up[u].doc] = "queued"]
    /\ up' = [up EXCEPT ![u] = Answered]
    /\ UNCHANGED <<docVars, rows, object, created, point, tries, fresh, delVars, expired, swept>>

\* The request ends early: the unique index refused the row, a store did not
\* answer, the process died.
LoseUpload(u) ==
    /\ up[u].pc \in {"checked", "stored", "inserted"}
    /\ up' = [up EXCEPT ![u] = Answered]
    /\ UNCHANGED <<docVars, rows, object, created, point, jobVars, delVars, expired, swept>>

-----------------------------------------------------------------------------
(* ingest_document *)

\* The job ends for good, returned or raised, and arq forgets it.
EndJob(d) ==
    /\ job' = [job EXCEPT ![d] = "over"]
    /\ tries' = [tries EXCEPT ![d] = 0]
    /\ fresh' = [fresh EXCEPT ![d] = {}]

\* A run of the job begins.  The get_object is not guarded: without the object
\* the job fails and the row keeps its status.
FetchObject(d) ==
    /\ job[d] = "queued"
    /\ IF file[d] \in object
       THEN /\ job' = [job EXCEPT ![d] = "fetched"]
            /\ tries' = [tries EXCEPT ![d] = @ + 1]
            /\ UNCHANGED fresh
       ELSE EndJob(d)
    /\ UNCHANGED <<docVars, rows, object, created, point, up, delVars, expired, swept>>

\* Mutant of Unembedded: the rows of an earlier run ignored.
EverythingAgain(d) == Content[file[d]]

\* The chunks of d's file that have no row under d.
Unembedded(d) == {k \in Content[file[d]] : <<d, k>> \notin rows}

\* _existing_hashes and dedup_chunks.  With nothing new there is nothing to
\* embed, upsert or record.
ReadHashes(d) ==
    /\ job[d] = "fetched"
    /\ fresh' = [fresh EXCEPT ![d] = Unembedded(d)]
    /\ job' = [job EXCEPT ![d] = IF Unembedded(d) = {} THEN "recorded" ELSE "scanned"]
    /\ UNCHANGED <<docVars, rows, object, created, point, tries, up, delVars, expired, swept>>

\* The rows INSERT ... ON CONFLICT DO NOTHING adds: uq_chunks_qdrant_point_id is
\* global, so a chunk that has a row, of any document, gets no second one.
NewRows(d) == {<<d, k>> : k \in fresh[d] \ Recorded}

\* Mutant of Embed: the chunks recorded before they are upserted.
EmbedAndRecord(d) ==
    /\ job[d] = "scanned"
    /\ job' = [job EXCEPT ![d] = "embedded"]
    /\ rows' = IF Present(d) THEN rows \union NewRows(d) ELSE rows
    /\ UNCHANGED <<docVars, object, created, point, tries, fresh, up, delVars, expired, swept>>

\* The gateway's embeddings call.
Embed(d) ==
    /\ job[d] = "scanned"
    /\ job' = [job EXCEPT ![d] = "embedded"]
    /\ UNCHANGED <<docVars, rows, object, created, point, tries, fresh, up, delVars, expired, swept>>

EnsureCollection(d) ==
    /\ job[d] = "embedded"
    /\ created' = created \union {Home[file[d]]}
    /\ job' = [job EXCEPT ![d] = "ensured"]
    /\ UNCHANGED <<docVars, rows, object, point, tries, fresh, up, delVars, expired, swept>>

\* A point that exists is relabelled.
Upsert(d) ==
    LET c == Home[file[d]] IN
    /\ job[d] = "ensured"
    /\ point' = [ck \in Collection \X Chunk |->
                    IF ck \in {c} \X fresh[d] THEN d ELSE point[ck]]
    /\ job' = [job EXCEPT ![d] = "upserted"]
    /\ UNCHANGED <<docVars, rows, object, created, tries, fresh, up, delVars, expired, swept>>

\* _record_chunks, one transaction.  A row for a document that is gone violates
\* the foreign key and fails the job.
RecordChunks(d) ==
    /\ job[d] = "upserted"
    /\ IF Present(d) \/ NewRows(d) = {}
       THEN /\ rows' = rows \union NewRows(d)
            /\ job' = [job EXCEPT ![d] = "recorded"]
            /\ fresh' = [fresh EXCEPT ![d] = {}]
            /\ UNCHANGED tries
       ELSE /\ EndJob(d)
            /\ UNCHANGED rows
    /\ UNCHANGED <<docVars, object, created, point, up, delVars, expired, swept>>

\* UPDATE documents SET status ... WHERE id: no row, no effect.
SetStatus(d, s) == status' = IF Present(d) THEN [status EXCEPT ![d] = s] ELSE status

SetReady(d) ==
    /\ job[d] = "recorded"
    /\ SetStatus(d, "ready")
    /\ EndJob(d)
    /\ UNCHANGED <<file, rows, object, created, point, up, delVars, expired, swept>>

\* run_ingestion raised: the extraction or OCR (of a job that has fetched the
\* object, whatever hashes it found), the embeddings call, a call to Qdrant,
\* the upsert among them after it took effect.
FailIngestion(d) ==
    /\ job[d] \in {"fetched", "scanned", "embedded", "ensured", "upserted"}
    /\ SetStatus(d, "error")
    /\ EndJob(d)
    /\ UNCHANGED <<file, rows, object, created, point, up, delVars, expired, swept>>

Running == {"fetched", "scanned", "embedded", "ensured", "upserted", "recorded"}

\* Mutant of RunsLeft: one run too many.
OneRunTooMany(d) == tries[d] <= MaxTries

RunsLeft(d) == tries[d] < MaxTries

\* The worker dies: arq runs the job again while it has tries left.
CrashWorker(d) ==
    /\ job[d] \in Running
    /\ IF RunsLeft(d)
       THEN /\ job' = [job EXCEPT ![d] = "queued"]
            /\ fresh' = [fresh EXCEPT ![d] = {}]
            /\ UNCHANGED tries
       ELSE EndJob(d)
    /\ UNCHANGED <<docVars, rows, object, created, point, up, delVars, expired, swept>>

\* The job's timeout cancels it, past the `except Exception` that would have set
\* the status; or an unguarded database call raises.  arq does not retry either.
AbandonJob(d) ==
    /\ job[d] \in Running
    /\ EndJob(d)
    /\ UNCHANGED <<docVars, rows, object, created, point, up, delVars, expired, swept>>

-----------------------------------------------------------------------------
(* purge_expired and erase_subject *)

Expire(d) ==
    /\ Present(d) /\ Home[file[d]] \in Retained /\ d \notin expired
    /\ expired' = expired \union {d}
    /\ UNCHANGED <<docVars, rows, object, created, point, jobVars, up, delVars, swept>>

\* Mutant of Due: the purge looks only at the documents that were ingested.
DueIfReady(x) == {d \in expired : status[d] = "ready"}

\* is_expired over the rows of the purge's query.
Due(x) == {d \in expired : Present(d)}

ListExpired(x) ==
    /\ x = Cron /\ stage[x] = "idle" /\ Due(x) # {}
    /\ todo' = [todo EXCEPT ![x] = Due(x)]
    /\ stage' = [stage EXCEPT ![x] = "listed"]
    /\ UNCHANGED <<docVars, rows, object, created, point, jobVars, up, cur, expired, swept>>

\* _delete_documents' query: the documents of one subject, whichever they are.
ListSubject(x, S) ==
    /\ x \in Eraser /\ stage[x] = "idle"
    /\ S # {} /\ \A d \in S : Present(d)
    /\ todo' = [todo EXCEPT ![x] = S]
    /\ stage' = [stage EXCEPT ![x] = "listed"]
    /\ UNCHANGED <<docVars, rows, object, created, point, jobVars, up, cur, expired, swept>>

\* delete_document_fully begins: delete_by_document takes the points labelled d.
\* In a collection Qdrant does not have it raises, and the whole loop ends.
DeleteVectors(x, d) ==
    LET c == Home[file[d]] IN
    /\ stage[x] = "listed" /\ d \in todo[x]
    /\ IF c \in created
       THEN /\ point' = [ck \in Collection \X Chunk |->
                            IF ck[1] = c /\ point[ck] = d THEN NoDoc ELSE point[ck]]
            /\ swept' = [swept EXCEPT ![d] =
                            IF job[d] = "over" /\ @ # "racing" THEN "quiet" ELSE "racing"]
            /\ stage' = [stage EXCEPT ![x] = "swept"]
            /\ cur' = [cur EXCEPT ![x] = d]
            /\ UNCHANGED todo
       ELSE /\ stage' = [stage EXCEPT ![x] = "idle"]
            /\ todo' = [todo EXCEPT ![x] = {}]
            /\ UNCHANGED <<point, swept, cur>>
    /\ UNCHANGED <<docVars, rows, object, created, jobVars, up, expired>>

\* remove_object; its exception is swallowed.
RemoveObject(x) ==
    /\ stage[x] = "swept"
    /\ \/ object' = object \ {file[cur[x]]}
       \/ UNCHANGED object
    /\ stage' = [stage EXCEPT ![x] = "removed"]
    /\ UNCHANGED <<docVars, rows, created, point, jobVars, up, todo, cur, expired, swept>>

\* Mutant of ReadyForRows: the rows deleted first, the vectors never.
RowsFirst(x, d) == stage[x] = "listed" /\ d \in todo[x]

ReadyForRows(x, d) == stage[x] = "removed" /\ d = cur[x]

\* One transaction: the chunk rows, then the document's.
DeleteRows(x, d) ==
    /\ ReadyForRows(x, d)
    /\ rows' = {dk \in rows : dk[1] # d}
    /\ status' = [status EXCEPT ![d] = "deleted"]
    /\ todo' = [todo EXCEPT ![x] = @ \ {d}]
    /\ stage' = [stage EXCEPT ![x] = IF todo[x] = {d} THEN "idle" ELSE "listed"]
    /\ cur' = [cur EXCEPT ![x] = NoDoc]
    /\ UNCHANGED <<file, object, created, point, jobVars, up, expired, swept>>

\* The deletion stops between two calls: killed, or a store raised.
LoseDeleter(x) ==
    /\ stage[x] # "idle"
    /\ stage' = [stage EXCEPT ![x] = "idle"]
    /\ todo' = [todo EXCEPT ![x] = {}]
    /\ cur' = [cur EXCEPT ![x] = NoDoc]
    /\ UNCHANGED <<docVars, rows, object, created, point, jobVars, up, expired, swept>>

-----------------------------------------------------------------------------

Uploading(u) ==
    \/ \E f \in File : CheckExisting(u, f)
    \/ PutObject(u)
    \/ \E d \in Doc : InsertRow(u, d)
    \/ Enqueue(u) \/ LoseUpload(u)

Ingesting(d) ==
    \/ FetchObject(d) \/ ReadHashes(d) \/ Embed(d) \/ EnsureCollection(d)
    \/ Upsert(d) \/ RecordChunks(d) \/ SetReady(d) \/ FailIngestion(d) \/ CrashWorker(d) \/ AbandonJob(d)

\* delete_document_fully for the documents listed.
Delete(x) ==
    \/ \E d \in Doc : DeleteVectors(x, d)
    \/ RemoveObject(x)
    \/ \E d \in Doc : DeleteRows(x, d)

Deleting(x) ==
    \/ ListExpired(x)
    \/ \E S \in SUBSET Doc : ListSubject(x, S)
    \/ Delete(x) \/ LoseDeleter(x)

Next ==
    \/ \E u \in Upload : Uploading(u)
    \/ \E d \in Doc : Ingesting(d) \/ Expire(d)
    \/ \E x \in Deleter : Deleting(x)

Spec == Init /\ [][Next]_vars

\* The purge runs every night, and no step of it fails every night.
Fairness ==
    /\ WF_vars(ListExpired(Cron))
    /\ SF_vars(\E d \in Doc : DeleteVectors(Cron, d))
    /\ SF_vars(RemoveObject(Cron))
    /\ SF_vars(\E d \in Doc : DeleteRows(Cron, d))

FairSpec == Spec /\ Fairness

-----------------------------------------------------------------------------
(* Properties *)

\* Every variable has its type.
TypeOK ==
    /\ status \in [Doc -> {"absent", "queued", "ready", "error", "deleted"}]
    /\ file \in [Doc -> File \union {NoFile}]
    /\ rows \subseteq Doc \X Chunk
    /\ object \subseteq File
    /\ created \subseteq Collection
    /\ point \in [Collection \X Chunk -> Doc \union {NoDoc}]
    /\ job \in [Doc -> {"none", "queued", "over"} \union Running]
    /\ tries \in [Doc -> 0 .. MaxTries]
    /\ fresh \in [Doc -> SUBSET Chunk]
    /\ up \in [Upload -> [pc: {"idle", "checked", "stored", "inserted", "done"},
                          file: File \union {NoFile}, doc: Doc \union {NoDoc}]]
    /\ stage \in [Deleter -> {"idle", "listed", "swept", "removed"}]
    /\ todo \in [Deleter -> SUBSET Doc]
    /\ cur \in [Deleter -> Doc \union {NoDoc}]
    /\ expired \subseteq Doc
    /\ swept \in [Doc -> {"no", "quiet", "racing"}]

\* A document that says "ready" can be found: each chunk its policy kept has a
\* point in its collection, whatever crashes and retries its job went through,
\* unless a deletion swept a document of that collection with the same chunk.
ReadyIsSearchable ==
    \A d \in Doc : status[d] = "ready" =>
        \A k \in Content[file[d]] :
            point[<<Home[file[d]], k>>] = NoDoc =>
                \E e \in Doc :
                    /\ swept[e] # "no"
                    /\ Home[file[e]] = Home[file[d]] /\ k \in Content[file[e]]

\* A document that is gone is gone everywhere: no chunk row names it, and no
\* point does unless its deletion swept Qdrant before its ingestion was over.
GoneIsClean ==
    \A d \in Doc : status[d] = "deleted" =>
        /\ \A k \in Chunk : <<d, k>> \notin rows
        /\ swept[d] # "racing" => Points(d) = {}

\* "Re-upload of an already-ingested doc: 0 new embeddings": the chunks that the
\* job of a live document pays to embed have no row under any document of the
\* same file, so neither a second upload nor the re-run of a job embeds again
\* what was recorded.
NothingRecordedIsReembedded ==
    [][\A d \in Doc :
        Present(d) /\ job[d] = "scanned" /\ job'[d] = "embedded" =>
            \A e \in Doc, k \in fresh[d] :
                file[e] = file[d] => <<e, k>> \notin rows]_vars

\* Retention is complete, crash after crash: an expired document is eventually
\* gone, as long as every expired document's collection exists in Qdrant.
Unsweepable == {e \in Doc : Present(e) /\ e \in expired /\ Home[file[e]] \notin created}

ExpiredIsPurgedIfSweepable ==
    \A d \in Doc : d \in expired ~> (status[d] = "deleted" \/ Unsweepable # {})
=============================================================================
