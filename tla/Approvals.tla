------------------------------ MODULE Approvals ------------------------------
(***************************************************************************)
(* The human-in-the-loop approval queue of the Fleet API.                  *)
(*                                                                         *)
(* A run of an agent graph stops at its hitl node: LangGraph stores a      *)
(* checkpoint under the run's thread_id, and the router that started the   *)
(* run inserts a pending row in `approvals`.  POST                         *)
(* /v1/approvals/{id}/decide reads that row, writes the decision, commits, *)
(* and resumes the run, which then calls the write tool the agent asked    *)
(* for (or ends).  A recipe's email step has a row and no graph.           *)
(*                                                                         *)
(* A Request is one call of decide.  Its database round trips and the      *)
(* nodes of the graph it resumes are separate actions, so that any number  *)
(* of requests for one run overlap; a request can be lost between any two  *)
(* of them (process killed, exception).  The checkpoint a node leaves is   *)
(* written in the node's own action.                                       *)
(***************************************************************************)
EXTENDS Naturals, FiniteSets

CONSTANTS
    Run,        \* run ids: threads of the checkpointer, rows of `approvals`
    Request,    \* calls of POST /v1/approvals/{id}/decide
    Payload,    \* arguments of the write the approval is about
    Permitted,  \* the payloads whose recipient passes the e-mail allowlist
    NoPayload   \* "no edited_payload", and the payload of an unborn run

ASSUME PermittedAssumption == Permitted \subseteq Payload
ASSUME NoPayloadAssumption == NoPayload \notin Payload

VARIABLES
    agent,      \* agent[r]: agents.name of the run's agent, "none" before it starts
    draft,      \* draft[r]: the write's arguments as the graph's state holds them
    thread,     \* thread[r]: the node the latest checkpoint of r would run next
    starting,   \* runs whose start_run call has not yet committed the row
    row,        \* row[r]: the run's row in `approvals`
    ask,        \* ask[q]: what request q asks; given, never changed
    pc,         \* pc[q]: how far decide_approval has got
    at,         \* at[q]: the node the graph resumed by q is about to run
    copy,       \* copy[q]: the arguments q's resume will pass to the write tool
    sent,       \* sent[r]: the calls of the write tool that took effect, told apart
                \* by who made them and with what
    filed       \* filed[r]: requests that moved the dealer's CRM status

vars == <<agent, draft, thread, starting, row, ask, pc, at, copy, sent, filed>>

-----------------------------------------------------------------------------

GraphAgent == {"dev_agent", "invoice_agent", "hr_agent", "dealer_onboarding",
               "insights_publisher"}

AgentName == GraphAgent \union {"automation_recipe"}

\* The keys of _RESUMERS: the agents whose approvals decide can resume.
Resumers == {"dev_agent", "invoice_agent", "hr_agent", "dealer_onboarding",
             "automation_recipe"}

\* The agents whose write is EmailSendTool.send, which checks the recipient.
Mailers == {"dealer_onboarding", "automation_recipe"}

Node == {"none", "hitl", "write", "notify", "end"}

Ask == [run: Run, approve: BOOLEAN, edit: Payload \union {NoPayload}]

Row == [status: {"absent", "pending", "approved", "rejected"},
        payload: Payload \union {NoPayload}]

Call == [by: Request, payload: Payload \union {NoPayload}]

\* Mutants of AfterApproval: the dealer's CRM moved before its e-mail; the
\* invoice graph's edge to create_draft_entry lost.
CrmBeforeEmail(a) ==
    CASE a = "hr_agent" -> "end" [] a = "dealer_onboarding" -> "crm" [] OTHER -> "write"
NoDraftEntry(a) == IF a \in {"hr_agent", "invoice_agent"} THEN "end" ELSE "write"

\* Where the conditional edge after hitl leads when the decision was "approve".
AfterApproval(a) == IF a = "hr_agent" THEN "end" ELSE "write"

\* What follows the write itself: the dealer's node goes on to the CRM, the
\* Dev Agent's graph to its Slack message.
AfterWrite(a) ==
    CASE a = "dealer_onboarding" -> "crm"
      [] a = "dev_agent"         -> "notify"
      [] OTHER                   -> "end"

Committed == {"committed", "resuming", "done", "failed"}

\* The requests that have committed a decision on r, and the approvals among them.
Deciders(r) == {q \in Request : ask[q].run = r /\ pc[q] \in Committed}
Grants(r)   == {q \in Deciders(r) : ask[q].approve}

-----------------------------------------------------------------------------

Init ==
    /\ agent = [r \in Run |-> "none"]
    /\ draft = [r \in Run |-> NoPayload]
    /\ thread = [r \in Run |-> "none"]
    /\ starting = {}
    /\ row = [r \in Run |-> [status |-> "absent", payload |-> NoPayload]]
    /\ ask \in [Request -> Ask]
    /\ pc = [q \in Request |-> "idle"]
    /\ at = [q \in Request |-> "none"]
    /\ copy = [q \in Request |-> NoPayload]
    /\ sent = [r \in Run |-> {}]
    /\ filed = [r \in Run |-> {}]

requestVars == <<ask, pc, at, copy>>
effectVars  == <<sent, filed>>

-----------------------------------------------------------------------------
(* Starting a run *)

\* The graph ran to its interrupt and left a checkpoint there.
StartRun(r, a, p) ==
    /\ agent[r] = "none"
    /\ agent' = [agent EXCEPT ![r] = a]
    /\ draft' = [draft EXCEPT ![r] = p]
    /\ thread' = [thread EXCEPT ![r] = "hitl"]
    /\ starting' = starting \union {r}
    /\ UNCHANGED <<row, requestVars, effectVars>>

\* The graph ended without an interrupt: blocked by a guardrail, or (dealer)
\* flagged or complete.  No row is written.
EndBeforeHitl(r, a) ==
    /\ agent[r] = "none"
    /\ agent' = [agent EXCEPT ![r] = a]
    /\ thread' = [thread EXCEPT ![r] = "end"]
    /\ UNCHANGED <<draft, starting, row, requestVars, effectVars>>

\* start_run inserts the pending row and commits.
QueueApproval(r) ==
    /\ r \in starting
    /\ row' = [row EXCEPT ![r] = [status |-> "pending", payload |-> draft[r]]]
    /\ starting' = starting \ {r}
    /\ UNCHANGED <<agent, draft, thread, requestVars, effectVars>>

\* The process dies between the checkpoint and the insert.
LoseStart(r) ==
    /\ r \in starting
    /\ starting' = starting \ {r}
    /\ UNCHANGED <<agent, draft, thread, row, requestVars, effectVars>>

\* A recipe's e-mail step: a row and no graph; 422 for other recipients.
EmailSend(r, p) ==
    /\ agent[r] = "none"
    /\ p \in Permitted
    /\ agent' = [agent EXCEPT ![r] = "automation_recipe"]
    /\ draft' = [draft EXCEPT ![r] = p]
    /\ row' = [row EXCEPT ![r] = [status |-> "pending", payload |-> p]]
    /\ UNCHANGED <<thread, starting, requestVars, effectVars>>

-----------------------------------------------------------------------------
(* decide_approval, up to its commit *)

\* Mutant of Load: the 409 of a decided row dropped.
LoadUnchecked(q) ==
    /\ pc[q] = "idle"
    /\ row[ask[q].run].status # "absent"
    /\ pc' = [pc EXCEPT ![q] = "loaded"]
    /\ UNCHANGED <<agent, draft, thread, starting, row, ask, at, copy, effectVars>>

\* session.get, the 409 of a decided row and the 500 of an agent that no
\* resumer is registered for.
Load(q) ==
    LET r == ask[q].run IN
    /\ pc[q] = "idle"
    /\ row[r].status # "absent"
    /\ pc' = [pc EXCEPT ![q] =
                IF row[r].status # "pending" THEN "conflict"
                ELSE IF agent[r] \notin Resumers THEN "no_handler"
                ELSE "loaded"]
    /\ UNCHANGED <<agent, draft, thread, starting, row, ask, at, copy, effectVars>>

\* Mutant of Commit: the session is never committed.
CommitForgotten(q) ==
    /\ pc[q] = "loaded"
    /\ pc' = [pc EXCEPT ![q] = "committed"]
    /\ UNCHANGED <<agent, draft, thread, starting, row, ask, at, copy, effectVars>>

\* UPDATE approvals ... WHERE id = :id, whatever the row holds by now.
Commit(q) ==
    LET r == ask[q].run IN
    /\ pc[q] = "loaded"
    /\ row' = [row EXCEPT ![r] =
                [status  |-> IF ask[q].approve THEN "approved" ELSE "rejected",
                 payload |-> IF ask[q].edit = NoPayload THEN row[r].payload
                                                        ELSE ask[q].edit]]
    /\ pc' = [pc EXCEPT ![q] = "committed"]
    /\ UNCHANGED <<agent, draft, thread, starting, ask, at, copy, effectVars>>

-----------------------------------------------------------------------------
(* The resume *)

\* graph.ainvoke(Command(resume=...)): load the latest checkpoint of the thread.
ResumeGraph(q) ==
    LET r == ask[q].run IN
    /\ pc[q] = "committed"
    /\ agent[r] \in GraphAgent
    /\ pc' = [pc EXCEPT ![q] = "resuming"]
    /\ at' = [at EXCEPT ![q] = thread[r]]
    /\ copy' = [copy EXCEPT ![q] = draft[r]]
    /\ UNCHANGED <<agent, draft, thread, starting, row, ask, effectVars>>

\* Mutant of ResumeRecipe: the early return of a rejection dropped.
SendAnyway(q) ==
    /\ pc[q] = "committed"
    /\ agent[ask[q].run] = "automation_recipe"
    /\ pc' = [pc EXCEPT ![q] = "resuming"]
    /\ at' = [at EXCEPT ![q] = "write"]
    /\ copy' = [copy EXCEPT ![q] = row[ask[q].run].payload]
    /\ UNCHANGED <<agent, draft, thread, starting, row, ask, effectVars>>

\* _resume_automation_recipe: nothing on a rejection; otherwise read the row
\* again and send what it holds.
ResumeRecipe(q) ==
    LET r == ask[q].run IN
    /\ pc[q] = "committed"
    /\ agent[r] = "automation_recipe"
    /\ pc' = [pc EXCEPT ![q] = "resuming"]
    /\ at' = [at EXCEPT ![q] = IF ask[q].approve THEN "write" ELSE "end"]
    /\ copy' = [copy EXCEPT ![q] = row[r].payload]
    /\ UNCHANGED <<agent, draft, thread, starting, row, ask, effectVars>>

\* Mutant of MoveTo: a checkpoint between the two calls of the dealer's node.
CheckpointInsideNode(q, n) ==
    /\ at' = [at EXCEPT ![q] = n]
    /\ thread' = [thread EXCEPT ![ask[q].run] = n]

\* The graph resumed by q moves on to node n and checkpoints it.
MoveTo(q, n) ==
    /\ at' = [at EXCEPT ![q] = n]
    /\ thread' = IF agent[ask[q].run] \in GraphAgent /\ n \in Node
                 THEN [thread EXCEPT ![ask[q].run] = n]
                 ELSE thread

\* Mutant of RouteAfterHitl: the edge that does not look at the decision.
RouteUnconditionally(q) == AfterApproval(agent[ask[q].run])

RouteAfterHitl(q) ==
    IF ask[q].approve THEN AfterApproval(agent[ask[q].run]) ELSE "end"

\* The hitl node again: interrupt() now returns the decision.
Hitl(q) ==
    /\ pc[q] = "resuming" /\ at[q] = "hitl"
    /\ MoveTo(q, RouteAfterHitl(q))
    /\ UNCHANGED <<agent, draft, starting, row, ask, pc, copy, effectVars>>

\* Mutant of RecipientRefused: the allowlist checked only when queueing.
NeverRefused(q) == FALSE

\* EmailSendTool._validate raises on a recipient outside the allowlist.
RecipientRefused(q) ==
    agent[ask[q].run] \in Mailers /\ copy[q] \notin Permitted

TookEffect(q) ==
    sent' = [sent EXCEPT ![ask[q].run] = @ \union {[by |-> q, payload |-> copy[q]]}]

\* The write node: github.open_pr, erp.create_draft_entry or email.send.
Write(q) ==
    /\ pc[q] = "resuming" /\ at[q] = "write"
    /\ ~RecipientRefused(q)
    /\ TookEffect(q)
    /\ MoveTo(q, AfterWrite(agent[ask[q].run]))
    /\ UNCHANGED <<agent, draft, starting, row, ask, pc, copy, filed>>

\* The write took effect, but the request ends before the node's checkpoint:
\* the answer timed out, or the process died.
WriteUnacknowledged(q) ==
    /\ pc[q] = "resuming" /\ at[q] = "write"
    /\ ~RecipientRefused(q)
    /\ TookEffect(q)
    /\ pc' = [pc EXCEPT ![q] = "failed"]
    /\ UNCHANGED <<agent, draft, thread, starting, row, ask, at, copy, filed>>

\* The tool refuses; the exception leaves the checkpoint where it was.
RefuseRecipient(q) ==
    /\ pc[q] = "resuming" /\ at[q] = "write"
    /\ RecipientRefused(q)
    /\ pc' = [pc EXCEPT ![q] = "failed"]
    /\ UNCHANGED <<agent, draft, thread, starting, row, ask, at, copy, effectVars>>

\* The second half of the dealer's send_email node: crm.update_status.
UpdateCrm(q) ==
    /\ pc[q] = "resuming" /\ at[q] = "crm"
    /\ filed' = [filed EXCEPT ![ask[q].run] = @ \union {q}]
    /\ MoveTo(q, "end")
    /\ UNCHANGED <<agent, draft, starting, row, ask, pc, copy, sent>>

\* The Dev Agent's Slack message; a failure is swallowed.
SlackNotify(q) ==
    /\ pc[q] = "resuming" /\ at[q] = "notify"
    /\ MoveTo(q, "end")
    /\ UNCHANGED <<agent, draft, starting, row, ask, pc, copy, effectVars>>

\* Nothing left to run: the endpoint answers 200.
Finish(q) ==
    /\ pc[q] = "resuming" /\ at[q] = "end"
    /\ pc' = [pc EXCEPT ![q] = "done"]
    /\ UNCHANGED <<agent, draft, thread, starting, row, ask, at, copy, effectVars>>

\* The request ends between two steps: process killed, or an exception from the
\* resumer's set-up or a tool.  Before the commit nothing was written.
Lose(q) ==
    /\ pc[q] \in {"loaded", "committed", "resuming"}
    /\ pc' = [pc EXCEPT ![q] = IF pc[q] = "loaded" THEN "gone" ELSE "failed"]
    /\ UNCHANGED <<agent, draft, thread, starting, row, ask, at, copy, effectVars>>

-----------------------------------------------------------------------------

Resume(q) ==
    \/ ResumeGraph(q) \/ ResumeRecipe(q) \/ Hitl(q) \/ Write(q)
    \/ RefuseRecipient(q) \/ UpdateCrm(q) \/ SlackNotify(q) \/ Finish(q)

Start(r) ==
    \/ \E a \in GraphAgent, p \in Payload : StartRun(r, a, p)
    \/ \E a \in GraphAgent : EndBeforeHitl(r, a)
    \/ QueueApproval(r)
    \/ LoseStart(r)
    \/ \E p \in Payload : EmailSend(r, p)

Decide(q) ==
    \/ Load(q) \/ Commit(q) \/ Resume(q) \/ WriteUnacknowledged(q) \/ Lose(q)

Next == (\E r \in Run : Start(r)) \/ (\E q \in Request : Decide(q))

Spec == Init /\ [][Next]_vars

\* A handler that is running keeps running until it ends or is lost.
Fairness == \A q \in Request : WF_vars(Commit(q) \/ Resume(q))

FairSpec == Spec /\ Fairness

-----------------------------------------------------------------------------
(* Properties *)

\* Every variable has its type.
TypeOK ==
    /\ agent \in [Run -> AgentName \union {"none"}]
    /\ draft \in [Run -> Payload \union {NoPayload}]
    /\ thread \in [Run -> Node]
    /\ starting \subseteq Run
    /\ row \in [Run -> Row]
    /\ ask \in [Request -> Ask]
    /\ pc \in [Request -> {"idle", "loaded", "conflict", "no_handler", "gone"}
                          \union Committed]
    /\ at \in [Request -> Node \union {"crm"}]
    /\ copy \in [Request -> Payload \union {NoPayload}]
    /\ sent \in [Run -> SUBSET Call]
    /\ filed \in [Run -> SUBSET Request]

\* "write:external never auto-executes": whatever the overlap of requests, the
\* losses and the half-finished resumes, a write tool was called for a run only
\* if some request committed an approval of that run.
WritesAreGranted == \A r \in Run : sent[r] # {} => Grants(r) # {}

\* A run whose row is still pending, or was never inserted, has been left alone:
\* its graph has not passed hitl and nothing went out.
UndecidedIsUntouched ==
    \A r \in Run :
        row[r].status \in {"absent", "pending"} =>
            /\ sent[r] = {} /\ filed[r] = {}
            /\ Deciders(r) = {}
            /\ (row[r].status = "pending" /\ agent[r] \in GraphAgent) => thread[r] = "hitl"

\* With a single decision the row tells the truth: a rejected run wrote nothing,
\* and whatever was written was written once, by the request that approved it.
SoleDecisionIsHonoured ==
    \A r \in Run : \A q \in Request :
        Deciders(r) = {q} =>
            /\ row[r].status = (IF ask[q].approve THEN "approved" ELSE "rejected")
            /\ \A c \in sent[r] : c.by = q /\ ask[q].approve
            /\ Cardinality(sent[r]) <= 1

\* What goes out.  A graph sends the arguments its state held at the interrupt,
\* a recipe the draft or some decider's edit; an e-mail only to a permitted
\* recipient, although an edit can name any.
WhatGoesOut ==
    \A r \in Run : \A c \in sent[r] :
        /\ \/ c.payload = draft[r]
           \/ /\ agent[r] = "automation_recipe"
              /\ \E q \in Deciders(r) : c.payload = ask[q].edit
        /\ agent[r] \in Mailers => c.payload \in Permitted

\* The CRM says "awaiting_documents" only when the same request's e-mail to the
\* dealer went out first.
CrmFollowsEmail ==
    \A r \in Run : \A q \in filed[r] :
        agent[r] = "dealer_onboarding" /\ (\E c \in sent[r] : c.by = q)

\* A row is final once it is decided and no request still holds it as pending:
\* no later request can change it.
Settled(r) ==
    /\ row[r].status \in {"approved", "rejected"}
    /\ \A q \in Request : ask[q].run = r => pc[q] # "loaded"

SettledIsFinal ==
    [][\A r \in Run : Settled(r) => Settled(r)' /\ row'[r] = row[r]]_vars

\* An approval nobody contradicts takes effect: the write is made, unless the
\* request that approved was itself lost or refused, or the agent has no write.
ApprovalTakesEffect ==
    \A r \in Run :
        Grants(r) # {} ~>
            \/ sent[r] # {}
            \/ agent[r] = "hr_agent"
            \/ Deciders(r) # Grants(r)
            \/ \E q \in Grants(r) : pc[q] = "failed"

\* The queue keeps the promise of ApprovalGate: a request decides a run only if
\* it read it undecided, and writes at most once, after some request granted it.
Readers(r) ==
    {q \in Request : ask[q].run = r /\ pc[q] \in {"loaded", "gone"} \union Committed}

Gate == INSTANCE ApprovalGate WITH
    readers <- [r \in Run |-> Readers(r)],
    granted <- [r \in Run |-> Grants(r)],
    refused <- [r \in Run |-> Deciders(r) \ Grants(r)],
    wrote   <- [r \in Run |-> {c.by : c \in sent[r]}]

ImplementsGate == Gate!Spec

-----------------------------------------------------------------------------
(* What the repository says and the code does not do *)

\* "a pending write:external item can be approved (run resumes) or rejected
\* (run cancels cleanly)": a run whose row says rejected wrote nothing.
RejectedRunWroteNothing ==
    \A r \in Run : row[r].status = "rejected" => sent[r] = {}

\* "an approver's edit is what actually goes out — the same guarantee the
\* graph-backed resumers get": what is written is what the approved row holds.
ApprovedEditGoesOut ==
    \A r \in Run : \A c \in sent[r] :
        Cardinality(Deciders(r)) = 1 => c.payload = row[r].payload
=============================================================================
