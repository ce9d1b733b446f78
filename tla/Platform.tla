------------------------------ MODULE Platform ------------------------------
(***************************************************************************)
(* The parts of the platform that share no state with one another, side by *)
(* side: a behaviour follows one of them, "part", and the others stay as   *)
(* they were set up.  The constants and the variables are those of the     *)
(* parts, under the parts' own names; what holds of each part is an        *)
(* invariant here.                                                         *)
(***************************************************************************)
EXTENDS Naturals

CONSTANTS
    Request, Name, NoName, Process, TTL,                \* KillSwitch
    Tool, NoTool, RiskOf, Thread, SpecOf,               \* AgentGraph
    Asker, Question, MaxGeneration,                     \* SemanticCache
    Role, TokenRoles, Admin, MaxRows,                   \* Access
    Suite, Size,                                        \* Evaluations
    Step, Trigger, MaxSteps,                            \* RecipeCompiler
    Collection, Agent, AgentLevel, File, Home, IsImage, \* KnowledgeBase
    HasPii, Tokens, Settings, TopK, TotalTokenCap, Highest,
    MaxTokens, MaxWords, MaxParagraphs, Length,         \* Passages
    LabelLength,
    MaxItems, Excerpts, Order, NoOrder, OrderAmount,    \* Reviews
    Amount, Figure, Criterion, Malformed, Keyless

VARIABLES
    part,                           \* the part that is followed
    name, status, flag, op, cache, held, torn,
    at, call, paused, rejected, blocked, readOnly, granted, caught,
    generation, behind, entry, asker,
    user, rows, key, req, adding, struck, exposed,
    suite, size, done, passed, kept, exit,
    draft, trigger,
    setting, job, points, ask, sent,
    paragraphs, findings,
    seen, given, outcome

-----------------------------------------------------------------------------
(* The parts.  KillSwitch and Access have requests of their own; the
   semantic cache and the knowledge base each have a question that is asked. *)

Switch == INSTANCE KillSwitch
Graph == INSTANCE AgentGraph
Cache == INSTANCE SemanticCache WITH ask <- asker
Rights == INSTANCE Access
Gate == INSTANCE Evaluations
Compiler == INSTANCE RecipeCompiler
Knowledge == INSTANCE KnowledgeBase
Texts == INSTANCE Passages
Replies == INSTANCE Reviews

ASSUME Assumptions ==
    /\ Switch!SwitchAssumption
    /\ Graph!GraphAssumption
    /\ Cache!CacheAssumption
    /\ Rights!AccessAssumption
    /\ Gate!EvaluationAssumption
    /\ Compiler!CompilerAssumption
    /\ Knowledge!KnowledgeAssumption
    /\ Texts!PassagesAssumption
    /\ Replies!ReviewsAssumption

-----------------------------------------------------------------------------
Parts == {"switch", "graph", "cache", "rights", "gate", "compiler", "knowledge",
          "texts", "replies"}

switchVars == <<name, status, flag, op, cache, held, torn>>
graphVars == <<at, call, paused, rejected, blocked, readOnly, granted, caught>>
cacheVars == <<generation, behind, entry, asker>>
rightsVars == <<user, rows, key, req, adding, struck, exposed>>
gateVars == <<suite, size, done, passed, kept, exit>>
compilerVars == <<draft, trigger>>
knowledgeVars == <<setting, job, points, ask, sent>>
textsVars == <<paragraphs, findings>>
repliesVars == <<seen, given, outcome>>

vars == <<part, switchVars, graphVars, cacheVars, rightsVars, gateVars,
          compilerVars, knowledgeVars, textsVars, repliesVars>>

Init ==
    /\ part \in Parts
    /\ Switch!Init /\ Graph!Init /\ Cache!Init /\ Rights!Init /\ Gate!Init
    /\ Compiler!Init /\ Knowledge!Init /\ Texts!Init /\ Replies!Init

Others ==
    /\ UNCHANGED part
    /\ IF part = "switch" THEN TRUE ELSE UNCHANGED switchVars
    /\ IF part = "graph" THEN TRUE ELSE UNCHANGED graphVars
    /\ IF part = "cache" THEN TRUE ELSE UNCHANGED cacheVars
    /\ IF part = "rights" THEN TRUE ELSE UNCHANGED rightsVars
    /\ IF part = "gate" THEN TRUE ELSE UNCHANGED gateVars
    /\ IF part = "compiler" THEN TRUE ELSE UNCHANGED compilerVars
    /\ IF part = "knowledge" THEN TRUE ELSE UNCHANGED knowledgeVars
    /\ IF part = "texts" THEN TRUE ELSE UNCHANGED textsVars
    /\ IF part = "replies" THEN TRUE ELSE UNCHANGED repliesVars

Next ==
    \/ part = "switch" /\ Switch!Next /\ Others
    \/ part = "graph" /\ Graph!Next /\ Others
    \/ part = "cache" /\ Cache!Next /\ Others
    \/ part = "rights" /\ Rights!Next /\ Others
    \/ part = "gate" /\ Gate!Next /\ Others
    \/ part = "compiler" /\ Compiler!Next /\ Others
    \/ part = "knowledge" /\ Knowledge!Next /\ Others
    \/ part = "texts" /\ Texts!Next /\ Others
    \/ part = "replies" /\ Replies!Next /\ Others

Spec == Init /\ [][Next]_vars

-----------------------------------------------------------------------------
(* What holds of each part, as its module says. *)

TypeOK ==
    /\ Switch!TypeOK /\ Graph!TypeOK /\ Cache!TypeOK /\ Rights!TypeOK
    /\ Gate!TypeOK /\ Compiler!TypeOK /\ Knowledge!TypeOK

PauseReachesEveryProcess == Switch!PauseReachesEveryProcess
StatusAgrees == Switch!StatusAgrees
WritesAreCleared == Graph!WritesAreCleared
ReadOnlyHolds == Graph!ReadOnlyHolds
ServedIsFresh == Cache!ServedIsFresh
RemovedStaysRemoved == Rights!RemovedStaysRemoved
EditsReachRequests == Rights!EditsReachRequests
GateIsEarned == Gate!GateIsEarned
CompiledMeansRecipe == Compiler!CompiledMeansRecipe
SentIsCovered == Knowledge!SentIsCovered
AnswerIsGrounded == Knowledge!AnswerIsGrounded
TextIsKept == Texts!TextIsKept
FindingsAreMasked == Texts!FindingsAreMasked
NothingIsGlossedOver == Replies!NothingIsGlossedOver
SilenceIsNotClean == Replies!SilenceIsNotClean
=============================================================================
