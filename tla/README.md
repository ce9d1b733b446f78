# Fleet Workflow: TLA+ specifications and proofs

Specifications of the Fleet platform (`src/`): a FastAPI gateway in front of
LangGraph agents, a RAG store, MCP tool servers, an LLM gateway and n8n. The
parts are joined by database rows, a checkpointer, queues and HTTP calls that
share no transaction; what can go wrong lies between two of them. The
specifications are about that.

## 1. The system

| Component | State it keeps | Operations | Interacts with |
|---|---|---|---|
| Approval queue (`routers/approvals.py`, the `start_run` routers, `service.py` e-mail) | `approvals` rows | queue, list, decide, resume | checkpointer, agent graphs, e-mail/GitHub/ERP/CRM tools |
| Agent graphs (`runtime/agents/*`, `core/graph.py`) | LangGraph checkpoints by `thread_id` | run to the interrupt, resume, write | kill switch, LLM client, tools |
| Documents (`routers/documents.py`, `rag/ingest/*`) | `documents`, `chunks`; MinIO objects; Qdrant points; the arq queue | upload, ingest, purge, erase | all four stores |
| Subject erasure (`routers/subjects.py`) | none | delete conversations, delete documents, pseudonymise audit rows | Postgres, documents |
| RAG query (`rag/query/*`) | none | retrieve, answer, cite | Qdrant, LLM client |
| LLM gateway client (`core/llm/*`) | `spend_ledger`, `budgets` | route by sensitivity, check budgets, call, record | LiteLLM, Postgres |
| Semantic cache (`core/semantic_cache.py`) | Redis/Qdrant entries, a generation counter | lookup, store, invalidate | nobody at present |
| Kill switch (`core/killswitch.py`, `agents_admin.py`) | `agents.status`, Redis flags, per-process caches | pause, resume, global read-only | graphs, chat |
| Chat (`routers/chat.py`) | `conversations`, `messages`, `feedback` | send (streamed), analytics and RAG replies, feedback | LLM client, kill switch, RAG |
| Recipes (`routers/recipes.py`, `n8n_client.py`, `recipes/*`) | `automation_recipes` | create, update, delete, activate, run | n8n |
| Authentication and roles (`auth.py`, `users.py`, `rbac.py`, `api_keys.py`, `middleware.py`) | `users`, `roles`, `api_keys`, rate counters, `audit_log` | provision, authorise, revoke, limit | Keycloak, Redis |
| Collections (`routers/collections.py`) | `rag_collections` | create, update | uploads, chat, queries |
| Evaluation gate (`src/evals/runner.py`) | none | run a suite, exit with its verdict | agents, LLM client |
| Registry, budgets administration, observability | configuration rows | edit | - |
| MCP servers (`mcp/fleet_mcp`) | none (remote systems) | one call each | the outside |
| Web console, seeds, migrations | - | - | API |

What is hard in them, and what makes each correct:

- **Approvals.** Any number of operators may decide the same row at once; the
  decision is committed before the run is resumed; the resume is itself several
  nodes, each with its own checkpoint and its own effect on the outside; any of
  it can be lost. Correct: no write without an approval, an undecided run is
  untouched, one decision has exactly its effect, a decided row is final.
- **Documents.** Four stores, no transaction across them; uploads, jobs with
  retries, the nightly purge and erasures overlap and crash. Correct: "ready"
  means searchable, gone means gone everywhere, nothing recorded is paid for
  twice, retention completes.
- **LLM gateway.** The budget is checked before a call and the spend recorded
  after it. Correct: sensitivity never routes to a forbidden lane; the overrun
  is bounded by the calls in flight; every completed call is recorded.
- **Recipes.** A row and an n8n workflow, created and changed by separate calls
  that can time out. Correct: what runs is what the row says, or the difference
  is visible.
- **Kill switch.** A row for the console and a flag for the runtime, written one
  after the other, the flag cached in every process. Correct: a pause that
  stands reaches every process in the cache's lifetime; row and flag agree once
  nothing is half done; no write passes an approval or the read-only mode it needs.
- **Semantic cache.** An answer is computed, and filed later. Correct: nobody is
  served an answer from before an invalidation that preceded the question.
- **Roles and keys.** Roles are copied from the token at some request and edited
  by administrators since. Correct: an edit holds against every later request.
- **Collections, RAG.** A file's passages and images, and a question's, are sent to
  models under a sensitivity read earlier. Correct: it is never lower than that of
  the collection when it was read; citations are of what the model was shown.
- **Chat, erasure.** A turn is an open transaction while an answer streams; an
  erasure is three. Correct: turns hang together, erasure is whole and true.
- **Pure parts** (the recipe compiler, the chunker, redaction, the checks of a
  model's reply, the evaluation gate). Correct: the workflow means the recipe, no
  text is lost, findings are masked, no reply is glossed over, a change to an
  agent passes only if the evaluation earned it.

`PROJECT.json` lists every component with its status, and every hazard at the
line where it bites with the properties that cover it.

## 2. Modules

| Module | What it is |
|---|---|
| `Approvals` | the approval queue, decide, and the graphs from their interrupt on |
| `ApprovalGate` | what the queue promises, without rows, graphs or payloads |
| `ApprovalsProofs` | the theorems about `Approvals`, with their proofs |
| `MCApprovals` | its small instances, and the symmetry of a larger one |
| `Documents` | upload, ingestion, retention and erasure over MinIO, Postgres, Qdrant and arq |
| `DocumentsProofs` | the theorems about `Documents`, with their proofs |
| `MCDocuments` | its small instances: files, homes, contents |
| `Gateway` | the LLM client: selection by sensitivity, budget check, call, ledger row |
| `GatewayProofs` | the theorems about `Gateway`, with their proofs |
| `MCGateway` | its small instances: budgets, registry, chains |
| `Recipes` | a recipe's row and the workflow compiled from it in n8n |
| `RecipesProofs` | the theorems about `Recipes`, with their proofs |
| `MCRecipes` | symmetry for its small instances |
| `Conversations` | one person's chat, and the erasure of that person |
| `ConversationsProofs` | the theorems about `Conversations`, with their proofs |
| `MCConversations` | its small instances |
| `KillSwitch` | pausing an agent: row, Redis flag, cached reads |
| `AgentGraph` | the base graph of an agent, invocation after invocation |
| `SemanticCache` | lookup, store and invalidation of cached answers |
| `Access` | role bootstrap, decisions on roles, tokens and keys, administration |
| `KnowledgeBase` | what goes to which model, from upload to answer |
| `Passages` | the chunker and the redaction of a passage |
| `RecipeCompiler` | the schema and the compiler of recipes, against what n8n runs |
| `Reviews` | what the agents make of a model's reply |
| `Evaluations` | the suites of the evaluation gate and its exit status |
| `Platform` | the nine parts above side by side, with their properties |
| `PlatformRuntimeProofs` | lemmas about `KillSwitch`, `AgentGraph`, `SemanticCache`, `Access` |
| `PlatformDataProofs` | lemmas about `KnowledgeBase` and `Passages` |
| `PlatformProofs` | the theorems about `Platform`, and lemmas about `Evaluations`, `RecipeCompiler`, `Reviews` |
| `MCPlatform` | its small instances |

### Approvals

State. `row[r]` is the row in `approvals`, `agent[r]` the name of the run's
agent, `draft[r]` the arguments in the graph's state, `thread[r]` the node its
latest checkpoint would run next, `starting` the `start_run` calls that have a
checkpoint and not yet a row. For each request `q` (one call of
`decide_approval`), `ask[q]` is what it asks, `pc[q]` and `at[q]` how far it has
got, `copy[q]` the arguments its resume carries. `sent` and `filed` are what
took effect outside: calls of the write tool, and CRM moves. `sent` is a set, in
which the same call made twice by one request would show once; that a request which
has written has its write behind it is `WritesAreSpent`, part of the proof of the
refinement.

Actions. `StartRun`, `EndBeforeHitl`, `QueueApproval`, `LoseStart`, `EmailSend`
create runs and rows. `Load` is the read with its early returns, `Commit` the
commit. `ResumeGraph`/`ResumeRecipe` begin the resume, `Hitl`, `Write`,
`UpdateCrm`, `SlackNotify`, `Finish` are its nodes. `WriteUnacknowledged`,
`RefuseRecipient` and `Lose` are the ways it ends early.

Reading choices. LangGraph is not part of the repository; it is modelled from
its use: `ainvoke(Command(resume=...))` loads the latest checkpoint of the
thread, an ended thread is a no-op, and a node that raised stays the next one,
so that a later resume runs it again without asking the interrupt. A node and
the checkpoint behind it are one action; `WriteUnacknowledged` is the case where
only the first half happened. A `thread_id` is a fresh UUID, so runs do not share
threads. A payload is a model value; the only thing told apart is whether its
recipient passes the e-mail allowlist. What a graph does outside before its
interrupt (the Dev Agent's branch, the CRM moves of a dealer's flagged or complete
application) is `write:internal` in the code's terms, needs no approval, and is not
in `sent` or `filed`.

`ApprovalGate` has four sets per run: who read it undecided, who granted it, who
refused it, who wrote. It says that only a request that read the run undecided
decides it, once; that a request writes at most once; and never before some
request granted the run. It is deliberately not "one decision, one write": the
code does not provide that (section 5).

### Documents

State. `status` and `file` are the `documents` rows, `rows` the `chunks`,
`object` MinIO, `created` and `point` Qdrant (`point[c, k]` is the document in
the payload of chunk `k`'s point in collection `c`), `job`, `tries`, `fresh` the
`ingest_document` job, `up` the uploads, `stage`, `todo`, `cur` the deletions
(one process per `erase_subject`, one for the purge). `swept` is history: whether
a deletion removed a document's points, and whether it did so before the
document's job was over.

Actions are the calls the code makes, in its order: `CheckExisting`,
`PutObject`, `InsertRow`, `Enqueue`; `FetchObject`, `ReadHashes`, `Embed`,
`EnsureCollection`, `Upsert`, `RecordChunks`, `SetReady`; `ListExpired`/`ListSubject`,
`DeleteVectors`, `RemoveObject`, `DeleteRows`. `LoseUpload`, `FailIngestion`,
`AbandonJob`, `CrashWorker`, `LoseDeleter` are the ways they stop.

Reading choices. A `File` is a file as uploaded into one collection, hence an
object key; `Content` gives the chunks that its PII policy keeps, so that the
extraction, the chunker and the policy are data. Chunk ids and point ids are one
to one (`uuid5` of the hash). `chunks` has a global unique index on the point
id: a chunk of a second document gets no row (`ON CONFLICT DO NOTHING`), and a
row for a document that is gone violates its foreign key. arq is modelled from
`WorkerSettings`: the job of a dead worker runs again, at most `MaxTries` times; a
job that raised or timed out does not. Qdrant refuses to delete points of a
collection that does not exist.

### Gateway

State. `spent[p][s]` is what `spend_ledger` holds for scope `s` since the start of
the current period `p`. For each caller `c` (a sequence of calls, one at a time):
`req[c]` its content, role and cost, `model[c]` the model selected, `level[c]` how
many scopes of its path (global, agent, user) the check has read, `stop[c]` whether
one of them was used up, `served[c]` the model that answered.

Actions. `Issue` is a call up to the check, `ReadBudget` and `CheckFails` the check
of one scope, which is one query, `Send` the request, `Serve` the proxy's answer,
by the model asked for or by one of its fallbacks, `Record` the ledger row.
`CheckFails`, `GatewayFails`, `RecordFails`, `AbandonStream` are the early ends: a
failing budget query ends the call, a failing ledger row loses the spend, a stream
closed by its reader is never recorded. `NewDay` and `NewMonth`
start a period.

Reading choices. Budgets, registry and chains are constants: the module is about
the calls between two edits of them. `RegistryAssumption` is what
`build_model_row` enforces. The proxy is not code of the repository but its
configuration is, and a chain is what that configuration may hold. Which of the
cleared models is selected is open, as the query has no order. A call costs at
most `MaxCost`, which nothing in the code ensures; it is the unit the overrun is
counted in. The soft limit sets a flag and a metric and is left out, and so is the
arithmetic of a price.

### Recipes

State. `row[r]` are the rows one recipe name has had, `flow[w]` the workflows in
n8n, `late` the requests whose call was not answered, `task[q]` what the session
of request `q` was asked, has loaded, and will write, and whether its answer will
hold anything against n8n (`fine`). `alone`, `lastWord`, `causes` and `kept`, the
workflows n8n refused to delete, are history, for the properties.

Actions are the steps of the five handlers: `CheckName`, `Insert`, `Load`, the
calls `Put`, `Post`, `Remove`, `Switch`, and the commits `Save` and `Drop`. Every
call may be obeyed, refused or left without an answer; an unanswered one may
`TakeEffect` at any later time, or never. A deletion is the one call whose refusal
the answer does not tell from success: `delete_recipe` looks at `reachable` only, so
`Drop` says "deleted" after either. `Lose` is a handler that dies.
`EditorRemoves` is a workflow deleted in n8n's own editor.

Reading choices. A session writes the columns that differ from what it loaded
(SQLAlchemy), so overlapping handlers merge column by column; an update of a row
that is gone fails, and the deletion of one does not. The unique index on the
name makes a second insert wait for the first transaction, which stays open over
the call to n8n. A 404 is told by searching the error for "404"; that an URL
could hold those digits is left out. `run_recipe` changes no state.

### Conversations

State. `conv`, `msg`, `rated` are the rows of `conversations`, `messages` and
`feedback`, `doc` the person's documents, `named` the audit rows that name the
person. `pc[t]` and `at[t]` are the turns (calls of `send_message`), `era` the
erasure: its step, the conversations and documents left to do, the messages it
has deleted and not committed. `before` is history.

Actions. `Admit`, `Ask`, `Reply`, `Save`, `SaveQuestion`, `Abandon` are a turn, which
is one transaction while the answer is streamed; `Rate` is feedback; `WriteAudit`
the middleware's row. `Start`, `DeleteMessages`, `DeleteConversations`,
`ListDocuments`, `DeleteDocument`, `Pseudonymize` are `erase_subject`, `Refuse` a
foreign key that stops it, `LoseErasure` any other failure.

Reading choices. Statements see what is committed; a turn that has inserted its
question holds a lock on its conversation, for which the deletion of
conversations waits; ratings wait for the deletion of their message. Erasures of
one person are issued one after the other. The deletion of one document is a step
here and four in `Documents`. That a conversation can be opened with a paused
agent, although `chat.py:3` says otherwise, makes no difference here.

### KillSwitch

State. `name` and `status` are one agent's row, `flag[n]` what Redis holds under
each name, `op[r]` a pause or resume request with what it has read, `cache[p][n]`
what a process of the runtime last read and how many seconds ago. `held` and
`torn` are history: how long a flag has been up; whether a request ended between
its two writes, two overlapped, or the row was renamed or deleted since.

Actions. `Read`, `Commit`, `WriteFlag` are `pause_agent` and `resume_agent`; `Create`,
`Rename`, `Delete` the rest of `agents_admin.py`; `Break` a request that ends early;
`Ask` is `is_agent_paused`, `Tick` a second, `Restart` a process that forgets, or a
`KillSwitch` made anew, as `chat.py` does for each request.

Reading choices. SQLAlchemy writes the status only if it differs from what was
read (`Written`), which is how two overlapping requests leave a row that says
the opposite of the flag. Of `update_agent` only the name matters here.

### AgentGraph

State. `at[h]` is the node a thread stands before, `call[h]` its tool call, `paused`,
`rejected`, `blocked` the keys of its state that nodes set and never clear,
`readOnly` the global flag.

Actions are the nodes: `KillswitchGate`, `CallModel` (with `context_builder`,
`guardrails_in` and `citation_attach`), `Resume` at `hitl`, `ExecuteTool` (the
read-only check) and `RunTool`, apart, because the flag may be raised between them.

Reading choices. A thread is invoked again and again with one checkpointed state,
so a key once set stays: a paused or rejected thread stays so. What the kill
switch answers is any Boolean; `KillSwitch` says what it can be.

### SemanticCache

State. `generation` is the counter in Redis, `behind` says that the collection has
changed and is not invalidated yet, `entry` what is cached, `ask[a]` a request.
Answers are known by the version of the collection they were computed from.

Actions. `Change` and `InvalidateCollection`; a request's `Begin`, `ReadGeneration`
(in `lookup`, and again in `store`), `Hit`, `Miss`, `Compute`, `Store`; `Expire`,
`Abandon`. Nothing in `src/` calls the cache yet; the order of its calls is the
one its interface asks for.

### Access

State. `user` and `rows[x]` (how many rows give a role) are one person's rows, `key`
an API key, `req[r]` a request, `adding[a]` an administrator's insert. `struck`
is history: every role an administrator took away and none gave back since. So is
`exposed`, those of them that the token may bring back, in the two cases in which
the code lets it: the person was left without any role row, or a login that had
found none was still at work when the role was taken. The properties speak of the
rest (`KeptAway`), and `EditsAreKept`, without exceptions, is violated (section 5).

Actions. `Arrive`, `FirstLogin`, `SeedRolesFromJwt`, `Commit`, `LoadRoles`, `Abort` are
`get_current_user`; `DecideOnToken` and `DecideOnKey` are
`require_user_or_service_scope`; `AddRole`, `InsertRole`, `RemoveRole` and the three
actions of the key are administration.

Reading choices. Read committed, no unique constraint on role rows. A key's scope
is written as the permission of the routes that accept it.

### KnowledgeBase

State. `setting[c]` is a collection's sensitivity and policy, `job[f]` an ingestion
with the setting it was enqueued with, `points` what Qdrant holds, `ask` one
question, `sent` the last text that went to a model: under which sensitivity, and
what its collection's was when the request read it.

Actions. `Update` (`Init` is `create_collection`); `Upload`, `ReadLocally`,
`ReadByVision`, `Drop`, `Embed`, `RefuseEmbed` for a file; `Chat` or `Query`, then
`Retrieve`, `Refuse`, `Generate`, `Degrade`, `Finish` for a question.

Reading choices. A search may return any ranking of at most `TopK` passages of the
collections asked. Questions share no state, so one at a time is enough. A file
is one passage; how texts are cut is `Passages`.

### Passages, RecipeCompiler, Reviews, Evaluations

These are pure functions of the code, as operators, with actions that only supply
inputs. `Passages`: `ChunkText` folds `PackUnlessBlank`, one round of the loop, over
the paragraphs (given by their numbers of words); `Redact` folds `Mask` over the
findings, the leftmost last, as the code sorts them in reverse. `RecipeCompiler`: `Accepted` is the schema,
`Compile` the compiler, `Round` what n8n runs of the result, `Meaning` what the
recipe says; texts are reduced to the steps they refer to. `Reviews`: one operator
per agent from a model's reply to the run's outcome. `Evaluations`: per suite
the cases its loader admits, the answers its pipeline can give, its judge; the
run counts and exits. A text is reduced to the facts the code looks at.

What counts as a clean result. `Reviews` knows three kinds of reply: a list of
entries, some of which may not be objects; `Malformed`, which ends a run blocked; and
`Keyless`, a JSON object without the key asked for, which `findings.py:83` and
`checker.py:146` read as an empty list (`Listed`). `NothingIsGlossedOver` names the
second and the third as the code treats them. In `Evaluations`, `KeepsGuardrail` is
every hard assert that `evals/config.yaml` names for a suite, and counts no case of
an unknown type as kept; the vehicle judge passes such cases unseen
(`JudgedByNobody`), and `GateIsEarned` says so.

### Platform

The parts that share no state with one another are instances in one module, with
the parts' own constants and variables. A behaviour follows one of them (`part`)
and the others stay as they were set up; nothing is lost by that, because no
property speaks of two parts. `Assumptions` collects what each part needs of its
constants. The module leaves every part all of its initial states; `MCPlatform` gives
the parts that are not followed a single one (`MCInit`), which spares the run
their product and takes no behaviour from the part that is.

## 3. Runs

| Run | Question | Instance |
|---|---|---|
| `approvals` | all safety properties; the queue implements its gate; an approval takes effect | 1 run of any agent, 2 requests with any decision and edit, 2 payloads |
| `approvals_race`, `approvals_edit` | statements of the documentation that the code does not keep | 1 run, 1 or 2 requests |
| `documents` | all safety properties | 2 documents, 2 files sharing a chunk in a collection, 2 uploads, 2 erasures, 2 tries |
| `documents_live` | retention completes | 2 documents with the same chunk in 2 collections, the purge, 1 try |
| `gateway` | content stays where it is cleared; the overrun is bounded | 3 callers, 2 of them for a user; a monthly global and a daily agent budget; two tiers of the default registry with their chains |
| `gateway_two_periods` | a statement of the code that it does not keep | a scope with a daily and a monthly budget |
| `recipes` | row and workflow in step, orphans with a cause | 3 requests, 2 rows, 3 workflows, 2 definitions |
| `access_last_role` | a statement of the code that it does not keep | 1 person, 1 role in the token, 2 requests |
| `conversations` | messages hang together; erasure is whole, true and ends | 2 conversations, 2 turns, 1 document, the audit rows of one turn, any number of erasures |
| `conversations_rated` | a statement of the code that it does not keep | 1 conversation, 1 turn |
| `platform` | the safety properties of the nine parts that share no state with others | below |

Bounds. Runs of the approval queue share nothing but the tables, so one run
shows what a run can do; two requests are the least that race, and liveness, which
allows no symmetry, ends in time with no more. The theorems hold for any number,
and `MCApprovalsThree.cfg`, which is none of the runs of `PROJECT.json`, explores
the safety properties for three, of which a third acts on what two that raced left.
In `Documents` two uploads may be of the same file
or of two files, which gives the unique-index race, a re-upload after a
deletion, and two documents with a common chunk; two tries are the least with a
retry. `Doc`, `Upload`, `Eraser` bound how often things happen; `MaxTries` is
arq's own bound. Requests, documents and uploads are interchangeable and the
safety runs use that symmetry; the liveness runs do not. In `Gateway` the limits
are 2 and 1 and a call costs at most 2, so that one call can exhaust a budget
while the others are past its check. In `Recipes` three requests are enough for
create, activate and delete in a row, and for two that race about a recipe
that exists. In `Conversations` the second conversation is one opened, and the
second turn one taken, while an erasure is at work on the first; `Audited` bounds
the audit rows that are followed, which do not depend on each other. Deadlock is checked in `gateway`, whose callers go on for ever, and
not elsewhere: the requests, uploads and jobs of an instance all end.

`platform` follows one part per behaviour (`part` names it, the others stay as they
were set up), because the parts share no variable. `KillSwitch`: one agent, two
names, two requests, a cache of 2 seconds, the least with an age between fresh
and expired. `AgentGraph`: a tool of each risk class, a thread whose agent has
earned autonomy and one that has the pass rate only. `SemanticCache`: two
requests, one question, two changes of the collection, so that one request may
compute before a change and store after the next. `Access`: two requests, one
administrator, two roles both in the token, two rows of a role. `KnowledgeBase`:
an image and a text in two collections, four settings of which the API refuses
one, a cap that two passages exceed; an agent cleared for confidential. `Passages`:
four paragraphs of up to seven words with a limit of three, so that one is cut
in three; a scanned passage of four characters with labels shorter and longer than
what they replace. `RecipeCompiler`: three steps, two of them conditions with a
branch on either side. `Reviews`: replies of two entries, amounts about the 1 % of
the tolerance. `Evaluations`: datasets of none, one and twenty cases, twenty being
the least that tells 85 % and 90 % from the counts beside them. The names and the
requests are interchangeable where they occur, and the properties are invariants:
the run uses that symmetry.

Fairness. `Approvals!Fairness` says that a handler in the middle of its code goes
on: nothing makes an operator decide, and `Lose` stays possible at every step, so
the liveness property exempts lost requests. `Documents!Fairness` says that the
purge starts every night (weak fairness of `ListExpired`) and that no single
step of it fails every night (strong fairness of each step, because a crash
disables the next one until another night); nothing is assumed of uploads or
of the worker. `Conversations!Fairness` says that turns end, that the operator
repeats an erasure until it is answered, and that from some time on no call of it
fails; a refusal by a foreign key is not a failure in this sense.

## 4. What is proved

Every theorem holds for every value of the constants that satisfies the named
assumption of its module, and those assumptions are what the code or its
configuration ensures. An invariant of a run is seldom inductive; below is what has
to be added to it, and why.

`ApprovalsProofs`, for any runs, requests and payloads:

- `TypeCorrect`: `TypeOK` is inductive as it stands.
- `GrantedWrites`, `UndecidedUntouched`, from `IInv`. That a write was granted
  depends on where the graph's checkpoint and every request stand. `IInv` adds that a
  thread or a request beyond `hitl` belongs to a granted run (`BeyondHitlIsGranted`),
  that a run being started has nothing yet (`StartIsFresh`), and that a request that
  has loaded a row found one (`LoadedHasRow`). `DecisionsGrow` is the lemma that
  decisions are never undone.
- `SettledRowsAreFinal`: the action property, from `IInv`.
- `Refinement`: initial states of `Approvals` map to initial states of `ApprovalGate`
  and every step to one of its steps or a stutter, with `WritesAreSpent` (a request
  that has written is not at its write any more) on top of `IInv`.
- `SoleDecisions`, `Outgoing`, `CrmAfterEmail`: what a sole decision means, what a write
  carries, and that a dealer is moved in the CRM only after the e-mail, from `OutInv`. It
  adds that a row decided by one request says what that request asked
  (`RowTellsSole`), that a call goes out once per request (`OneCallEach`), and that the
  arguments in a request's hands are the draft's or its own edit (`CopyIsAsked`).
  `DecideKinds` sorts the steps of `decide_approval` into the five kinds that
  these proofs tell apart.

`DocumentsProofs`, for any documents, files, chunks and collections, and any number
of uploads and erasures, from `DocInv`:

- `TypeCorrect`, with what each upload, job and deletion holds at its stage.
- `ReadySearchable`. "Ready" is set long after the upsert, and other documents are
  deleted in between. `Found` is what no step undoes: a chunk once upserted has a
  point for good, or some document that held it was swept. `ChunksAreFound` carries
  it from the upsert over the chunk rows to the status.
- `GoneClean`. Points lie where their document's file says (`PointsAreHome`), and a
  deletion that swept after the job was over stays settled (`QuietIsSettled`).
- `NothingReembedded`, the action property: one row per file (`OneRowPerFile`), and a
  job's fresh chunks have no rows while it holds them (`FreshIsNew`).

`RecipesProofs`, for any requests, rows, workflows and definitions, from `RecipeInv`:

- `TypeCorrect`.
- `LastWord`. Row and workflow are changed by separate steps, so `ToldHolds` says
  what a handler in between knows: a request that nothing overlapped still has the
  row it loaded, and n8n as it was told, or as it was if n8n refused to delete.
- `OrphanCause`: while n8n obeyed and no two requests overlapped
  (`UndisturbedIsTidy`), every running workflow is a live row's, except the one a
  handler is about to save or has just removed the row of.

`GatewayProofs`, for any callers, budgets, scopes and models:

- `TypeCorrect`: `TypeOK` is inductive as it stands.
- `ContentStaysCleared`, from `ClearedInv`: the model selected is cleared for the
  content, and a chain that never steps down in clearance keeps it so. The run checks
  the same for the chains of the configuration.
- `OverrunBound`: what a scope has spent, with what the callers that have passed its
  check may still spend (`Reserved`), stays below the limit plus one `MaxCost` per
  caller. The property says nothing of the callers between their check and their
  ledger row; `CheckedInv` ties `level[c]` to where `c` stands.

`ConversationsProofs`, for any conversations, turns, documents and requests:

- `TypeCorrect`, `WholeTurns`, `Erased`, `Whole`, from `ErasureInv`. It adds that stored
  messages come from turns that are over (`StoredIsOver`), that a turn which has
  asked still finds its conversation (`LockedIsThere`, the row lock), and that what
  the erasure found is older than what can still be opened, uploaded, stored or
  logged (`BeforeIsOld`). The crux is the commit of the conversations: no turn holds
  one then, and by `NothingStray` no message is left.

`PlatformProofs`, from `Assumptions`. `PartsAreFollowed` says that a behaviour of the
platform is a behaviour of each of its parts; what is proved of a part's own
specification, in the lemmas, then holds of the platform.

- `TypeCorrect`, for all parts that have a type invariant.
- `PauseReaches`: an answer that says "active" is younger than the flag is old
  (`AnswersAreYounger`). `StatusIsEnforced`: unless something was torn, at most one
  request is under way, and row and flag differ only as far as it has come.
- `WritesCleared`, `ReadOnly`: the approval and the read-only check are carried along
  the nodes between them and the tool (`CallIsCleared`).
- `Freshness`: what is filed under a generation, and what is about to be, was computed
  in it or later (`FiledFresh`), unless an invalidation caught it on its way.
- `Removal`, `EditsDecide`: of who has no row everything struck is exposed, and what a
  request is about to seed is not kept away (`RowsAreSound`, `RequestsAreSound`); `PermissionsGrow` bounds what the
  roles held grant.
- `Coverage`: each job carries the setting of its upload, each question a floor and a
  name no lower; changing a collection touches neither.
- `Grounding`: what is kept of a ranking is a prefix of it that fits the cap, or its
  first passage (`KeptFits`), and an answer cites places of that prefix.
- `GateEarned`: each suite's judge passes only answers that kept every hard assert of
  the suite, or cases that no judge looks at (`JudgesKeepGuardrail`), and the counts of a run follow (`GateInv`).
- `NothingGlossedOver`: for replies of any length and any amounts, the 1 % of an
  invoice's tolerance included, and the two kinds of reply the code does not look at
  excepted by name (`BeginChecks`).
- `TextKept`: for any text and limit, chunking loses, repeats and reorders no word, and
  every passage is within the limit. After k paragraphs the words of the first k
  stand in the passages and in what is being packed (`Told`, `Sound`); `PiecesKeepWords`
  is the same for a paragraph that is cut on its own.
- `FindingsMasked`: for any passage, findings apart from one another and labels of any
  lengths. Replacing from the right, after the findings among the last k characters
  the text is the passage without those and untouched on their left (`IsMasked`,
  `Untouched`), which is why the offsets still to come hold although labels change
  the length (`MaskKeeps`).

- `CompiledMeans`: for any accepted recipe, trigger and outcome of its conditions. The
  stored recipe is accepted (`RecipeInv`); then, step after step, one account is kept of
  a run through what is compiled so far (`Good`): it passes the steps told, goes on from
  each to the next only, and no node reads what runs from it on. The run stands at the
  pending ends that apply (`Goes`), or at none of them on a branch it does not take
  (`Passes`); `ConditionTold` joins the two branches, which takes that the ids of a
  recipe are distinct (`ConditionIds`) and that an end passed by stays so
  (`StaysPassed`). `RoundIsPassed` reads what n8n runs off the account.

`TextKept`, `FindingsMasked` and `CompiledMeans` are about folds. The library defines a fold by a
recursive function on sets, which is a `CHOOSE`: `ComputesExists` (for the three loops
over a sequence), `JoinsExists` and `BlotsExist` show by hand that the function
exists, `PassedRuns` the same of the rounds of a run. Its values then follow by
`Induction`, a lemma about sets of numbers that closes under the successor, itself
from the well-foundedness of finite sets, since the library's induction theorems take
an operator as a parameter.

What proving showed about the models. `Documents` needs `MaxTries >= 1` (with 0 a job
could be over before it runs) and `Recipes` a row at all; both are now assumed, and
both are true of the code. In `Recipes` two cases of `Save` overlapped with equal
values; they are apart now. `TotalTokenCap`, `Excerpts`, `OrderAmount`, `Amount` and the
limits of `Passages` got the types that the runs gave them anyway, and that a branch
holds actions only, which `ConditionStep` says (`recipes/schema.py:194`), is now part of
`CompilerAssumption`. `Redact`, the
listing check and the review of a contract are written with a fold over the findings
and with sets of places, which can be reasoned about, instead of sorting and
filtering sequences; the runs and their mutants are the same.

Only model-checked:

- The liveness properties `ApprovalTakesEffect`, `ExpiredIsPurgedIfSweepable` and
  `ErasureIsAnswered`: fairness and `ENABLED` are out of the prover's reach.

## 5. Where the code and its documentation differ

Five runs end in a counterexample, quoted in `PROJECT.json`:

1. `approvals_race`: "pending" is checked when the row is read and not when it is
   updated; an approval and a rejection that overlap both commit and both resume.
   A rejected row may belong to a run that wrote.
2. `approvals_edit`: an approver's edit reaches the write only for recipes; the
   graph agents send what their checkpoint holds.
3. `conversations_rated`: `feedback` refers to `messages` and nothing deletes it. A
   person one of whose messages was ever rated cannot be erased: the call fails at
   that message, before the documents and the audit rows, every time.
4. `gateway_two_periods`: of a scope's daily and monthly budget rows the check
   reads one, whichever the query returns first; a call goes out although the
   other is used up.
5. `access_last_role`: who is left without any role row is given the token's roles
   again at the next request, and is let through on them. The role of somebody who
   has no other cannot be taken away for as long as the tokens name it, although
   `users.py:49-52` seeds "only on a user's first login" and lets no admin edit be
   overwritten.

Two more differences have a configuration that ends in a counterexample, and are
not among the runs of `PROJECT.json`:

6. `MCRecipesRefused.cfg` (module `MCRecipes`, property `OrphanIsNamed`): a deletion
   that n8n refuses (401, 5xx) is answered with the plain success of one it obeyed;
   the row is gone and the workflow goes on running. `recipes.py:262-263` says that
   "the orphan workflow is named in the response".
7. `MCPlatformSilence.cfg` (module `MCPlatform`, property `SilenceIsNotClean`): a JSON
   object without "findings" completes a contract review with nothing found.
   `legal_review/graph.py:15-18` calls this the dangerous failure mode and says that
   blocking reports "I could not review this" instead. `checker.py:146` does the
   same for a listing.

Further weaknesses are visible as the exceptions the properties have to make:

- `Load` has an outcome `no_handler`: `insights_publisher` queues approvals and has
  no resumer, so its items can be neither approved nor rejected.
- `GoneIsClean` exempts `swept[d] = "racing"`: an erasure that overlaps the
  ingestion leaves vectors that no row leads to.
- `ReadyIsSearchable` exempts chunks of a swept document: the documents of a
  collection that contain the same chunk share its only point, and deleting the
  one that upserted it last takes it from the others.
- `ExpiredIsPurgedIfSweepable` exempts `Unsweepable`: one expired document in a
  collection that never received a vector ends every night's purge.
- `NothingRecordedIsReembedded` speaks of documents of the same file: chunks are
  deduplicated per document, so a chunk two files share is embedded twice.
- `retention.py:7-8` says that deleting vectors first never leaves a row that
  points at deleted data. A crash leaves just that, for as long as it takes to
  repeat the deletion; the order is still the right one, as the remaining row is
  what the next purge finds (`GoneIsClean` and its mutant, which deletes rows first).
- `ErasureIsAnswered` needs the exception of finding 3, and an erasure is refused
  whenever a turn commits while it waits for it.
- `OverrunIsBounded` is about the ledger: a stream closed by its reader
  (`AbandonStream`) and a failed ledger row cost money no budget sees.
- `OrphanHasACause` lists what leaves a workflow nobody owns, and `LastWordHolds`
  exempts the workflows n8n refused to delete (6).
- `LastWordHolds` of `Recipes` says nothing of `active` after a 404: `_deploy` sends
  none, so a workflow recreated by a save is inactive under a row that says
  active, although `recipes.py:4-6` says that the deployment can be rebuilt at any
  time by saving.
- `StatusAgrees` exempts `torn`: a failure between the commit and Redis, two
  overlapping requests, a rename, a deletion or the re-use of a name leave a flag
  that contradicts the row.
- `AgentGraph`: pausing does not stop a thread that waits at `hitl`; `paused` and
  `rejected` stick to a thread. No router builds the base graph with a kill switch
  at present.
- `ServedIsFresh` exempts `late`: `store` reads the generation when it stores, and
  files an answer computed before an invalidation under the generation after it.
- `RemovedStaysRemoved` and `EditsReachRequests` exempt `exposed` roles: those of
  somebody who has lost the last row (5), and those a login at work was about to seed
  when they were taken (`users.py:53-60`; its commit brings them back). Two first logins that overlap end one in a 500;
  duplicate role rows make `add_role` end in a 500.
- `EditsReachRequests` exempts the route `token`: service-or-user routes decide a
  bearer token on the token's own roles (`service_auth.py`), whereas `users.py:3-6`
  and `users_admin.py:8-10` call the rows the source of truth.
- `SentIsCovered` is relative to when the collection was read: raising a
  collection's sensitivity does not touch the jobs already queued. `pii.py:12-13`
  says that local-only text never gets near a cloud call; the collections router
  lets "internal" with "allow_local_only" through, a chat or query names the agent's
  or the collection's sensitivity, and `ocr.py:119` sends the image as it is.
- `FindingsAreMasked` is about findings apart: of two that overlap and differ in
  type, a tail may stay (`pii.py:132-136`, against lines 7-8).
- `CompiledMeansRecipe` lets a text refer to a step on a branch that did not run
  (`recipes/schema.py:247-250`): n8n then evaluates a node that never ran.
- `GateIsEarned` says what the exit status means, no more: `evals/config.yaml` calls
  its guardrails hard asserts, and `main` averages them into a pass rate of 85 or
  90 %. A case of an unknown type passes in the vehicle suite (`runner.py:1186`) and is
  exempted, and a Dev Agent case without expectations passes too. A case that raises ends the whole run.
- `NothingIsGlossedOver` exempts a reply without its key (7) and, in a contract
  review, entries that are not objects: `findings.py:86` drops them, neither among the
  findings nor among the uncited.
- `VehicleOutcome`: without comparables a brief has no band and is not incomplete.
  `price_band.py:40-41` says that the caller then marks the brief incomplete; the
  graph does so only if neither chassis nor kilometres could be read.
- `Reviews`: duplicates of an invoice are found within one batch, and every run of
  the router is a batch of its own. A listing reply that is JSON but not an object,
  or holds entries that are not objects, raises past `CheckParseError`. The payload
  of an insights approval carries only the arguments, not the reasons.
  "12.5" and "125" are the same number to `grounding._normalise`.
- A `SensitivityRefusal` is no `GatewayError`: in a chat it aborts the stream.

## 6. Not modelled, and the plan

| Part | Why |
|---|---|
| Rate limiter (`middleware.py`) | one Redis counter per client and minute, whose key names the minute: a counter left without an expiry is never read again |
| Registry and budgets administration, built-in workflows | edits of single rows, or of nothing; their results are constants of `Gateway` |
| `factory.py:83` | the registry is read once per client: edits reach the ingest worker at its restart, which `Gateway` (between two edits) does not see |
| `delete_collection` | refused by a foreign key while a document is in it |
| Analytics | its guard parses SQL |
| The Dev Agent's choice of files, guardrail and memory texts, prompts | change texts only |
| What parsers, tesseract, vision models and Presidio find | inputs |
| MCP servers beyond the calls an approval leads to | one remote call each |
| Observability, seeds, migrations, web console, `local_lane_rehearsal.py` | no state a property could be about |

Left for later, in this order:

1. Composition: `KillSwitch` as the answer `AgentGraph` is given; `Documents` and
   `SemanticCache`, once a router invalidates the cache.
