--------------------------- MODULE RecipeCompiler ---------------------------
(***************************************************************************)
(* A recipe is a list of steps: actions, and conditions with a list of     *)
(* actions on each branch.  The schema accepts it or not; the compiler     *)
(* turns an accepted one into an n8n workflow, nodes joined by connections *)
(* from a numbered output.  n8n then runs the nodes along the connections, *)
(* from whichever trigger fired.                                           *)
(*                                                                         *)
(* A text of a step is reduced to the steps it refers to and to whether it *)
(* holds anything n8n would evaluate beside those references.              *)
(***************************************************************************)
EXTENDS Naturals, Sequences, SequencesExt

CONSTANTS
    Step,       \* the steps a user may put in a recipe
    Trigger,    \* the triggers: "schedule", "manual"
    MaxSteps    \* how many steps a recipe may have


VARIABLES
    draft,      \* the steps of the recipe stored last
    trigger     \* its trigger

vars == <<draft, trigger>>

IsCondition(step) == step.type = "condition"

Actions == {step \in Step : ~IsCondition(step)}

\* What the constants must be: a branch holds actions, never a condition.
CompilerAssumption ==
    /\ MaxSteps \in Nat
    /\ \A step \in Step : IsCondition(step) =>
          step.then_steps \in Seq(Actions) /\ step.else_steps \in Seq(Actions)

\* The actions of a condition, those of the branch on true first.
BranchSteps(step) == step.then_steps \o step.else_steps

-----------------------------------------------------------------------------
(* The schema. *)

\* check_text, on every string of the step: no expression may be left once
\* the references are taken out.
TextsAreSafe(step) ==
    /\ ~step.expression
    /\ IsCondition(step) =>
          \A k \in DOMAIN BranchSteps(step) : ~BranchSteps(step)[k].expression

\* ConditionStep._validate
HasABranch(step) == IsCondition(step) => BranchSteps(step) # <<>>

\* The steps referred to by a step, or by a step on its branches.
References(step) ==
    IF IsCondition(step)
    THEN step.refs \cup UNION {BranchSteps(step)[k].refs :
                                  k \in DOMAIN BranchSteps(step)}
    ELSE step.refs

\* The ids a step adds to those seen.
Ids(step) ==
    IF IsCondition(step)
    THEN {step.id} \cup {BranchSteps(step)[k].id : k \in DOMAIN BranchSteps(step)}
    ELSE {step.id}

Distinct(step) ==
    IsCondition(step) => IsInjective(
        <<step.id>> \o [k \in DOMAIN BranchSteps(step) |-> BranchSteps(step)[k].id])

SeenBefore(steps, k) == UNION {Ids(steps[j]) : j \in 1..(k - 1)}

\* A plausible slip: the ids of the branches join those seen first.
RefersBackSeenFirst(steps, k) ==
    References(steps[k]) \subseteq
        (SeenBefore(steps, k) \cup Ids(steps[k])) \ {steps[k].id}

\* _unique_ids_and_ordered_refs: what a step may refer to is what precedes
\* the step it belongs to, so a branch does not refer to itself.
RefersBack(steps, k) == References(steps[k]) \subseteq SeenBefore(steps, k)

UniqueIds(steps, k) ==
    /\ Distinct(steps[k])
    /\ Ids(steps[k]) \cap SeenBefore(steps, k) = {}

Accepted(steps) ==
    /\ Len(steps) \in 1..MaxSteps
    /\ \A k \in DOMAIN steps :
          /\ TextsAreSafe(steps[k])
          /\ HasABranch(steps[k])
          /\ UniqueIds(steps, k)
          /\ RefersBack(steps, k)

-----------------------------------------------------------------------------
(* The compiler.  The ends still to be connected are "pending". *)

Webhook == [trigger |-> "manual"]
Schedule == [trigger |-> "schedule"]

\* The name a node gets from its step, and how n8n finds it.
NodeName(step) == [type |-> step.type, id |-> step.id]

\* Every recipe has the webhook, whatever its trigger.
Triggers(kind) == IF kind = "schedule" THEN {Schedule, Webhook} ELSE {Webhook}

\* SERVICE_PATHS: the one place where the target of an action is decided.
ServicePaths == [
    pg_query    |-> "/v1/service/pg-query",
    agent_run   |-> "/v1/service/agent-run",
    slack_post  |-> "/v1/service/slack-post",
    email_send  |-> "/v1/service/email-send",
    http_notify |-> "/v1/service/notify"]

\* One node: what it is, where it posts, and the nodes its texts read, by the
\* names known by then (node_names).
Node(step, names) == [
    name  |-> NodeName(step),
    url   |-> IF IsCondition(step) THEN "" ELSE ServicePaths[step.action],
    reads |-> {n \in names : n.id \in step.refs},
    lost  |-> step.refs \ {n.id : n \in names}]

\* A node is emitted and every pending end is connected to it.
Connect(work, step) ==
    LET known == work.names \cup {NodeName(step)}
    IN  [nodes   |-> Append(work.nodes, Node(step, known)),
         names   |-> known,
         edges   |-> work.edges \cup
                     {[from |-> p.from, output |-> p.output, to |-> NodeName(step)] :
                         p \in work.pending},
         pending |-> {[from |-> NodeName(step), output |-> 0]}]

\* One branch, from the given output of the condition.
EmitBranch(work, step, output, branch) ==
    FoldLeft(Connect,
             [work EXCEPT !.pending = {[from |-> NodeName(step), output |-> output]}],
             branch)

\* A plausible slip: only the branch on false is joined to what follows.
EmitLastBranch(work, step) ==
    LET entered == Connect(work, step)
        thens == EmitBranch(entered, step, 0, step.then_steps)
        elses == EmitBranch(thens, step, 1, step.else_steps)
    IN  IF IsCondition(step) THEN elses ELSE entered

\* A step of the recipe.  After a condition the ends of both branches are
\* pending; a branch without steps leaves the condition's own output.
Emit(work, step) ==
    LET entered == Connect(work, step)
        thens == EmitBranch(entered, step, 0, step.then_steps)
        elses == EmitBranch(thens, step, 1, step.else_steps)
    IN  IF IsCondition(step)
        THEN [elses EXCEPT !.pending = thens.pending \cup elses.pending]
        ELSE entered

Compile(kind, steps) ==
    FoldLeft(Emit,
             [nodes   |-> <<>>,
              names   |-> {},
              edges   |-> {},
              pending |-> {[from |-> t, output |-> 0] : t \in Triggers(kind)}],
             steps)

-----------------------------------------------------------------------------
(* What n8n does with it: it starts at a trigger and goes on along the      *)
(* connections of the output each node leaves by, a condition by 0 when it  *)
(* holds and by 1 when it does not.                                         *)

OutputOf(node, holding) ==
    IF node \notin {Webhook, Schedule} /\ node.type = "condition"
       /\ node.id \notin holding
    THEN 1 ELSE 0

After(edges, node, holding) ==
    {e.to : e \in {f \in edges : f.from = node /\ f.output = OutputOf(node, holding)}}

\* The nodes that run in the round k after the trigger.
Round(workflow, start, holding) ==
    LET run[k \in 0..Len(workflow.nodes)] ==
            IF k = 0 THEN {start}
            ELSE UNION {After(workflow.edges, n, holding) : n \in run[k - 1]}
    IN  run

-----------------------------------------------------------------------------
(* Storing a recipe: the builder sends it whole, and what the schema        *)
(* refuses changes nothing.                                                 *)

Init ==
    /\ draft = <<>>
    /\ trigger \in Trigger

\* The stored recipe is sent again with one more step.
Extend(step) ==
    /\ Accepted(Append(draft, step))
    /\ draft' = Append(draft, step)
    /\ UNCHANGED trigger

Next == \E step \in Step : Extend(step)

Spec == Init /\ [][Next]_vars

TypeOK ==
    /\ draft \in Seq(Step)
    /\ Len(draft) <= MaxSteps
    /\ trigger \in Trigger

-----------------------------------------------------------------------------
(* What a recipe means: its steps in order, of a condition the branch that  *)
(* applies.                                                                 *)

Meaning(steps, holding) ==
    FlattenSeq([k \in DOMAIN steps |->
        <<steps[k]>> \o
        IF ~IsCondition(steps[k]) THEN <<>>
        ELSE IF steps[k].id \in holding THEN steps[k].then_steps
        ELSE steps[k].else_steps])

Conditions(steps) == {steps[k].id : k \in {j \in DOMAIN steps : IsCondition(steps[j])}}

\* Whatever triggers an accepted recipe and however its conditions turn out,
\* the compiled workflow runs exactly its steps, one at a time and in order,
\* and then stops; and each node that runs reads only nodes that ran before
\* it, or that stand on a branch which did not run.
CompiledMeansRecipe ==
    draft # <<>> =>
        LET workflow == Compile(trigger, draft)
            Told(holding) == Meaning(draft, holding)
            Skipped(holding) ==
                {n \in workflow.names :
                    n \notin {NodeName(Told(holding)[k]) : k \in DOMAIN Told(holding)}}
        IN  /\ \A k \in DOMAIN workflow.nodes : workflow.nodes[k].lost = {}
            /\ \A holding \in SUBSET Conditions(draft), start \in Triggers(trigger) :
                LET run == Round(workflow, start, holding)
                    told == Told(holding)
                IN  \A k \in 1..Len(workflow.nodes) :
                        IF k > Len(told)
                        THEN run[k] = {}
                        ELSE /\ run[k] = {NodeName(told[k])}
                             /\ \E j \in DOMAIN workflow.nodes :
                                   /\ workflow.nodes[j].name = NodeName(told[k])
                                   /\ workflow.nodes[j].reads \subseteq
                                         {NodeName(told[i]) : i \in 1..(k - 1)}
                                         \cup Skipped(holding)
=============================================================================
