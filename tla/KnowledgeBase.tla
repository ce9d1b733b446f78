--------------------------- MODULE KnowledgeBase ----------------------------
(***************************************************************************)
(* What leaves the company on the way from an uploaded file to an answer:  *)
(* the image sent to a vision model, the passages sent to be embedded, the *)
(* passages put before the model that answers.  The gateway serves a call  *)
(* only with a model cleared for the sensitivity the CALL names; this      *)
(* module is about the sensitivity that is named, against that of the      *)
(* collection, which an administrator may change at any time.              *)
(*                                                                         *)
(* A file is one passage long (Passages.tla is about how a text is cut).   *)
(***************************************************************************)
EXTENDS Naturals, FiniteSets, Sequences, SequencesExt, FiniteSetsExt

CONSTANTS
    Collection,
    Agent,          \* the agents people chat with
    AgentLevel,     \* the sensitivity of each agent
    File,
    Home,           \* the collection each file is uploaded to
    IsImage,        \* the file has no text layer
    HasPii,         \* the scan finds something in its text
    Tokens,         \* how long its passage is, capped per chunk
    Settings,       \* what a collection may be set to
    TopK,           \* how many passages are looked up
    TotalTokenCap,  \* how many tokens go before the model
    Highest         \* the highest clearance of the registry's models

\* Sensitivity: public < internal < confidential < pii.
Public == 0
Internal == 1
Confidential == 2
Pii == 3
Sensitivity == Public..Pii

Policies == {"redact", "block", "allow_local_only"}

\* _validate of the collections router.
ValidSetting(s) == ~(s.sensitivity = Pii /\ s.policy = "redact")

KnowledgeAssumption ==
    /\ Collection # {}
    /\ AgentLevel \in [Agent -> Sensitivity]
    /\ Home \in [File -> Collection]
    /\ Tokens \in [File -> Nat]
    /\ Settings \subseteq [sensitivity : Sensitivity, policy : Policies]
    /\ TotalTokenCap \in Nat
    /\ Highest \in Sensitivity

VARIABLES
    setting,    \* setting[c]: sensitivity and policy in the collection's row
    job,        \* job[f]: the ingestion of f, with what it was enqueued with
    points,     \* the passages Qdrant holds, and whether they are redacted
    ask,        \* the question being answered (questions share no state)
    sent        \* history: the last text that went to a model

vars == <<setting, job, points, ask, sent>>

Idle == [step |-> "idle"]
Nothing == [floor |-> Public, named |-> Pii, text |-> "none"]

Positions == 0..(TopK + 1)

-----------------------------------------------------------------------------
(* Collections. *)

\* A plausible slip: only a new collection is validated.
UpdateUnchecked(c, s) ==
    /\ setting[c] # s
    /\ setting' = [setting EXCEPT ![c] = s]
    /\ UNCHANGED <<job, points, ask, sent>>

\* update_collection; create_collection is the initial state.
Update(c, s) ==
    /\ ValidSetting(s)
    /\ setting[c] # s
    /\ setting' = [setting EXCEPT ![c] = s]
    /\ UNCHANGED <<job, points, ask, sent>>

-----------------------------------------------------------------------------
(* Calls.  A call names a sensitivity; there is a model for it, or the      *)
(* gateway refuses.  "floor" is the sensitivity the text had when its       *)
(* request read the collection.                                             *)

Served(named) == named <= Highest

Send(floor, named, text) ==
    sent' = [floor |-> floor, named |-> named, text |-> text]

-----------------------------------------------------------------------------
(* Ingestion. *)

\* upload_document: the job carries the collection's setting of this moment.
Upload(f) ==
    /\ job[f] = Idle
    /\ job' = [job EXCEPT ![f] = [step |-> "queued", set |-> setting[Home[f]]]]
    /\ UNCHANGED <<setting, points, ask, sent>>

ToScan(f) == [job EXCEPT ![f].step = "read"]
Over(f, how) == [job EXCEPT ![f] = [step |-> how]]

\* extract_text, and ocr_image's local lane.
ReadLocally(f) ==
    /\ job[f].step = "queued"
    /\ job' = ToScan(f)
    /\ UNCHANGED <<setting, points, ask, sent>>

\* ocr_image: no vision model above the floor.
TriesVision(f) == IsImage[f] /\ job[f].set.sensitivity < Confidential

\* _try_vision: the image as it is, before any redaction; a refusal or an
\* empty answer falls back to tesseract.
ReadByVision(f) ==
    /\ job[f].step = "queued"
    /\ TriesVision(f)
    /\ Served(job[f].set.sensitivity)
    /\ Send(job[f].set.sensitivity, job[f].set.sensitivity, "image")
    /\ job' = ToScan(f)
    /\ UNCHANGED <<setting, points, ask>>

\* apply_pii_policy
Blocked(f) == job[f].set.policy = "block" /\ HasPii[f]
Redacted(f) == job[f].set.policy = "redact" /\ HasPii[f]
LocalOnly(f) == job[f].set.policy = "allow_local_only"

\* The sensitivity the embedding call names.
EmbedSensitivity(f) == IF LocalOnly(f) THEN Pii ELSE job[f].set.sensitivity

\* run_ingestion once there is text: a blocked passage is dropped; the others
\* are embedded and stored.
Drop(f) ==
    /\ job[f].step = "read"
    /\ Blocked(f)
    /\ job' = Over(f, "ready")
    /\ UNCHANGED <<setting, points, ask, sent>>

Embed(f) ==
    /\ job[f].step = "read"
    /\ ~Blocked(f)
    /\ Served(EmbedSensitivity(f))
    /\ Send(job[f].set.sensitivity, EmbedSensitivity(f), "passage")
    /\ points' = points \cup {[file |-> f, redacted |-> Redacted(f)]}
    /\ job' = Over(f, "ready")
    /\ UNCHANGED <<setting, ask>>

\* No model is cleared for it: the document is in error.
RefuseEmbed(f) ==
    /\ job[f].step = "read"
    /\ ~Blocked(f)
    /\ ~Served(EmbedSensitivity(f))
    /\ job' = Over(f, "error")
    /\ UNCHANGED <<setting, points, ask, sent>>

-----------------------------------------------------------------------------
(* Questions.  An agent reads all of its collections, the service one.      *)

Levels == {setting[c].sensitivity : c \in Collection}

Asked(floor, named, C) ==
    ask' = [step |-> "asked", floor |-> floor, named |-> named, from |-> C]

\* A plausible slip: one collection the agent may read lets it read them all.
MayReadAny(a) == \E level \in Levels : level <= AgentLevel[a]

\* _assert_agent_may_read_its_collections
MayRead(a) == \A level \in Levels : level <= AgentLevel[a]

\* send_message: the calls will name the agent's sensitivity.
Chat(a) ==
    /\ ask = Idle
    /\ MayRead(a)
    /\ Asked(Max(Levels), AgentLevel[a], Collection)
    /\ UNCHANGED <<setting, job, points, sent>>

\* query: the calls will name the collection's.
Query(c) ==
    /\ ask = Idle
    /\ Asked(setting[c].sensitivity, setting[c].sensitivity, {c})
    /\ UNCHANGED <<setting, job, points, sent>>

\* How many tokens the first k of a ranking come to.
TokensOf(ranking) == FoldLeft(LAMBDA sum, p : sum + Tokens[p.file], 0, ranking)

\* A plausible slip: the passage that crosses the cap is still kept.
KeptPastTheCap(ranking) ==
    Max({0} \cup {k \in DOMAIN ranking :
                    TokensOf(SubSeq(ranking, 1, k - 1)) <= TotalTokenCap})

\* retrieve: passages are kept, best first, up to the first that does not fit;
\* the best is kept even when it does not.
Kept(ranking) ==
    Max({0} \cup {k \in DOMAIN ranking :
                    \A j \in 2..k :
                        TokensOf(SubSeq(ranking, 1, j)) <= TotalTokenCap})

\* The passages in the order of a search, TopK at most.
Rankings(C) ==
    UNION {SetToSeqs(P) : P \in
        {Q \in SUBSET {p \in points : Home[p.file] \in C} : Cardinality(Q) <= TopK}}

\* answer_query: the question is embedded, passages are looked up and kept.
Retrieve ==
    /\ ask.step = "asked"
    /\ Served(ask.named)
    /\ \E ranking \in Rankings(ask.from) :
          ask' = [step |-> "found", floor |-> ask.floor, named |-> ask.named,
                  hits |-> SubSeq(ranking, 1, Kept(ranking)), left |-> 2]
    /\ UNCHANGED <<setting, job, points, sent>>

\* SensitivityRefusal: no model may answer, and the question ends.
Refuse ==
    /\ ask.step = "asked"
    /\ ~Served(ask.named)
    /\ ask' = Idle
    /\ UNCHANGED <<setting, job, points, sent>>

\* _resolve_citations fails unless every position is one of the hits.
Resolves(positions, hits) ==
    /\ positions # <<>>
    /\ \A k \in DOMAIN positions : positions[k] \in 1..Len(hits)

Citations(positions, hits) == [k \in DOMAIN positions |-> hits[positions[k]].file]

Answered(text, cited, degraded) ==
    [step |-> "answered", hits |-> ask.hits, text |-> text,
     cited |-> cited, degraded |-> degraded]

\* build_answer with nothing to answer from, or no attempt left.
Degrade ==
    /\ ask.step = "found"
    /\ ask.hits = <<>> \/ ask.left = 0
    /\ ask' = Answered(<<>>, <<>>, TRUE)
    /\ UNCHANGED <<setting, job, points, sent>>

\* One attempt of build_answer: the model cites positions of its choosing.
Generate(positions) ==
    /\ ask.step = "found"
    /\ ask.hits # <<>>
    /\ ask.left > 0
    /\ Send(ask.floor, ask.named, "passage")
    /\ ask' = IF Resolves(positions, ask.hits)
              THEN Answered(positions, Citations(positions, ask.hits), FALSE)
              ELSE [ask EXCEPT !.left = @ - 1]
    /\ UNCHANGED <<setting, job, points>>

\* The answer has been delivered.
Finish ==
    /\ ask.step = "answered"
    /\ ask' = Idle
    /\ UNCHANGED <<setting, job, points, sent>>

-----------------------------------------------------------------------------

Init ==
    /\ setting \in [Collection -> {s \in Settings : ValidSetting(s)}]
    /\ job = [f \in File |-> Idle]
    /\ points = {}
    /\ ask = Idle
    /\ sent = Nothing

Ingest(f) ==
    \/ Upload(f) \/ ReadLocally(f) \/ ReadByVision(f)
    \/ Drop(f) \/ Embed(f) \/ RefuseEmbed(f)

Answer ==
    \/ Retrieve \/ Refuse \/ Degrade \/ Finish
    \/ \E n \in 0..2 : \E positions \in [1..n -> Positions] : Generate(positions)

Next ==
    \/ \E c \in Collection, s \in Settings : Update(c, s)
    \/ \E f \in File : Ingest(f)
    \/ \E a \in Agent : Chat(a)
    \/ \E c \in Collection : Query(c)
    \/ Answer

Spec == Init /\ [][Next]_vars

-----------------------------------------------------------------------------
(* Properties. *)

TypeOK ==
    /\ setting \in [Collection -> {s \in Settings : ValidSetting(s)}]
    /\ \A f \in File : job[f].step \in {"idle", "queued", "read", "ready", "error"}
    /\ points \subseteq [file : File, redacted : BOOLEAN]
    /\ ask.step \in {"idle", "asked", "found", "answered"}
    /\ sent.floor \in Sensitivity /\ sent.named \in Sensitivity

\* What goes to a model, an image, a passage to embed or the passages of a
\* question, goes under a sensitivity no lower than the one its collection had
\* when the upload or the question read it: chat.py:390, ocr.py:119 and
\* pipeline.py:98 agree whatever administrators change meanwhile.
SentIsCovered == sent.named >= sent.floor

\* An answer that is not degraded cites at least one passage, every citation
\* is of the passage the model was shown under that number, and what it was
\* shown fits the cap unless the best passage alone does not.
AnswerIsGrounded ==
    ask.step = "answered" =>
        /\ ask.degraded <=> ask.cited = <<>>
        /\ Len(ask.cited) = Len(ask.text)
        /\ \A k \in DOMAIN ask.cited :
              /\ ask.text[k] \in DOMAIN ask.hits
              /\ ask.cited[k] = ask.hits[ask.text[k]].file
        /\ TokensOf(ask.hits) <= TotalTokenCap \/ Len(ask.hits) = 1
=============================================================================
