----------------------------- MODULE MCPlatform -----------------------------
(***************************************************************************)
(* Small instances of the parts of Platform.                               *)
(***************************************************************************)
EXTENDS Platform, Sequences, FiniteSets, TLC

CONSTANTS
    n1, n2,                         \* agents' names
    r1, r2,                         \* requests
    mail, read, file,               \* tools
    t1, t2,                         \* threads
    s1, s2, s3, s4,                 \* ids of recipe steps
    public, guarded, clerk,         \* two collections, an agent
    scan, letter,                   \* two files
    o1, o2                          \* purchase orders

-----------------------------------------------------------------------------
MCRiskOf == (mail :> "write:external") @@ (file :> "write:internal") @@ (read :> "read")

\* One agent that has earned autonomy, one with the pass rate alone.
MCSpecOf == (t1 :> [rate |-> 90, autonomy |-> TRUE])
            @@ (t2 :> [rate |-> 95, autonomy |-> FALSE])

MCSuite == {"support", "analytics", "dev_agent", "invoice", "hr", "listing",
            "vehicle", "dealer", "legal", "insights"}

\* Four ids, so that two conditions may have a step each; conditions take the
\* first two.
Id == {s1, s2, s3, s4}
Refs == {{}} \cup {{i} : i \in Id}
Action(i, refs, expression) ==
    [type |-> "action", id |-> i, action |-> "email_send", refs |-> refs,
     expression |-> expression]
Condition(i, refs, thens, elses) ==
    [type |-> "condition", id |-> i, refs |-> refs, then_steps |-> thens,
     else_steps |-> elses, expression |-> FALSE]
Branch(R) == {<<>>} \cup {<<Action(i, refs, FALSE)>> : i \in Id, refs \in R}
AnyStep ==
    {Action(i, refs, e) : i \in Id, refs \in Refs, e \in BOOLEAN}
    \cup {Condition(i, refs, t, e) : i \in {s1, s2}, refs \in Refs,
                                     t \in Branch(Refs), e \in Branch({{}})}
    \cup {Condition(i, {}, <<Action(j, {}, FALSE), Action(k, refs, FALSE)>>, <<>>) :
             i \in {s1, s2}, j \in Id, k \in Id, refs \in Refs}

\* A condition and its branch do not both refer to an earlier step.
Steps ==
    {s \in AnyStep : s.type = "condition" =>
        \/ s.refs = {}
        \/ \A k \in DOMAIN s.then_steps : s.then_steps[k].refs = {}}

MCStep == Steps

\* An image in one collection, a text in the other; two passages exceed the
\* cap; the last setting is one the API refuses.
MCAgentLevel == clerk :> 2
MCHome == (scan :> public) @@ (letter :> guarded)
MCIsImage == (scan :> TRUE) @@ (letter :> FALSE)
MCHasPii == (scan :> TRUE) @@ (letter :> TRUE)
MCTokens == (scan :> 2) @@ (letter :> 2)
Set(sensitivity, policy) == [sensitivity |-> sensitivity, policy |-> policy]
MCSettings ==
    {Set(1, "redact"), Set(2, "block"), Set(3, "allow_local_only"), Set(3, "redact")}

\* An order of 100 and one of nothing; the amounts of the cfg are about the
\* tolerance.
MCOrderAmount == (o1 :> 100) @@ (o2 :> 0)

-----------------------------------------------------------------------------
\* A part that is not followed starts in one of its initial states.
MCInit ==
    /\ Init
    /\ part # "gate" => suite = "support" /\ size = 0
    /\ part # "compiler" => trigger = "manual"
    /\ part # "knowledge" => \A x \in Collection : setting[x] = Set(1, "redact")

MCSpec == MCInit /\ [][Next]_vars

\* Names are alike, and requests.
Alike == Permutations({n1, n2}) \cup Permutations({r1, r2})
=============================================================================
