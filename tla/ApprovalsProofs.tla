--------------------------- MODULE ApprovalsProofs ---------------------------
(***************************************************************************)
(* Proofs about Approvals, for any number of runs, requests and payloads.  *)
(*                                                                         *)
(* WritesAreGranted is not inductive: a write follows the hitl node by     *)
(* several steps, possibly of another request that picked the thread up    *)
(* where a failed one left it.  IInv adds that a graph past its hitl node, *)
(* in a request's memory or in the checkpoint, has been granted.           *)
(***************************************************************************)
EXTENDS Approvals, FiniteSetTheorems, TLAPS

\* Every step of every run and request preserves the types.
LEMMA TypeStep == TypeOK /\ [Next]_vars => TypeOK'
<1> SUFFICES ASSUME TypeOK, [Next]_vars PROVE TypeOK'
  OBVIOUS
<1> USE DEF TypeOK, Row, Ask, Call, Node, AgentName, GraphAgent, Committed
<1> USE DEF requestVars, effectVars
<1>1. ASSUME NEW r \in Run, Start(r) PROVE TypeOK'
  <2>1. CASE \E a \in GraphAgent, p \in Payload : StartRun(r, a, p)
    BY <2>1 DEF StartRun
  <2>2. CASE \E a \in GraphAgent : EndBeforeHitl(r, a)
    BY <2>2 DEF EndBeforeHitl
  <2>3. CASE QueueApproval(r)
    BY <2>3 DEF QueueApproval
  <2>4. CASE LoseStart(r)
    BY <2>4 DEF LoseStart
  <2>5. CASE \E p \in Payload : EmailSend(r, p)
    BY <2>5 DEF EmailSend
  <2> QED
    BY <1>1, <2>1, <2>2, <2>3, <2>4, <2>5 DEF Start
<1>2. ASSUME NEW q \in Request, Decide(q) PROVE TypeOK'
  <2> ask[q].run \in Run /\ ask[q].edit \in Payload \union {NoPayload}
    OBVIOUS
  <2>1. CASE Load(q)
    BY <2>1 DEF Load
  <2>2. CASE Commit(q)
    BY <2>2 DEF Commit
  <2>3. CASE ResumeGraph(q)
    BY <2>3 DEF ResumeGraph
  <2>4. CASE ResumeRecipe(q)
    <3>1. row[ask[q].run].payload \in Payload \union {NoPayload}
      OBVIOUS
    <3> QED
      BY <2>4, <3>1 DEF ResumeRecipe
  <2>5. CASE Hitl(q)
    BY <2>5 DEF Hitl, RouteAfterHitl, MoveTo, AfterApproval
  <2>6. CASE Write(q)
    <3>1. PICK n \in {"crm", "notify", "end"} : MoveTo(q, n)
      BY <2>6 DEF Write, AfterWrite
    <3>2. at' \in [Request -> Node \union {"crm"}] /\ thread' \in [Run -> Node]
      BY <3>1 DEF MoveTo
    <3>3. sent' \in [Run -> SUBSET Call]
      BY <2>6 DEF Write, TookEffect
    <3> QED
      BY <2>6, <3>2, <3>3 DEF Write
  <2>7. CASE WriteUnacknowledged(q)
    BY <2>7 DEF WriteUnacknowledged, TookEffect
  <2>8. CASE RefuseRecipient(q)
    BY <2>8 DEF RefuseRecipient
  <2>9. CASE UpdateCrm(q)
    BY <2>9 DEF UpdateCrm, MoveTo
  <2>10. CASE SlackNotify(q)
    BY <2>10 DEF SlackNotify, MoveTo
  <2>11. CASE Finish(q)
    BY <2>11 DEF Finish
  <2>12. CASE Lose(q)
    BY <2>12 DEF Lose
  <2> QED
    BY <1>2, <2>1, <2>2, <2>3, <2>4, <2>5, <2>6, <2>7, <2>8, <2>9, <2>10,
       <2>11, <2>12 DEF Decide, Resume
<1>3. CASE UNCHANGED vars
  BY <1>3 DEF vars
<1> QED
  BY <1>1, <1>2, <1>3 DEF Next

\* The type invariant: rows, checkpoints and requests stay in their ranges
\* whatever start_run and decide_approval do.
THEOREM TypeCorrect == Spec => []TypeOK
<1>1. Init => TypeOK
  BY DEF Init, TypeOK, Row, Ask, Node, AgentName, GraphAgent, Committed
<1> QED
  BY <1>1, TypeStep, PTL DEF Spec

-----------------------------------------------------------------------------

\* A graph that has passed hitl towards its write has been granted, whether its
\* place is in a request's memory or in the checkpoint another request may load.
BeyondHitlIsGranted ==
    /\ \A q \in Request, r \in Run :
          /\ ask[q].run = r
          /\ pc[q] = "resuming" /\ at[q] \in {"write", "crm", "notify"}
          => Grants(r) # {}
    /\ \A r \in Run : thread[r] \in {"write", "notify"} => Grants(r) # {}

\* Only the start of a run gives it an agent; until its row is in, its graph
\* waits at hitl.
StartIsFresh ==
    /\ \A r \in starting :
          row[r].status = "absent" /\ agent[r] \in GraphAgent /\ thread[r] = "hitl"
    /\ \A r \in Run : agent[r] = "none" =>
          row[r].status = "absent" /\ thread[r] = "none" /\ r \notin starting

\* A request past its load has a row to decide.
LoadedHasRow ==
    \A q \in Request, r \in Run :
        ask[q].run = r /\ pc[q] \in {"loaded"} \union Committed
          => row[r].status # "absent"

IInv ==
    /\ TypeOK
    /\ WritesAreGranted
    /\ UndecidedIsUntouched
    /\ BeyondHitlIsGranted
    /\ StartIsFresh
    /\ LoadedHasRow

-----------------------------------------------------------------------------

\* A start leaves every request alone.
LEMMA StartFrame ==
    ASSUME NEW r \in Run, Start(r)
    PROVE  UNCHANGED <<ask, pc, at, copy, sent, filed>>
BY DEF Start, StartRun, EndBeforeHitl, QueueApproval, LoseStart, EmailSend,
       requestVars, effectVars

\* A step of one request leaves the others, and what everyone asked, alone.
LEMMA DecideFrame ==
    ASSUME NEW q \in Request, Decide(q)
    PROVE  /\ UNCHANGED <<agent, draft, starting, ask>>
           /\ pc' = [pc EXCEPT ![q] = pc'[q]] \/ pc' = pc
BY DEF Decide, Load, Commit, Resume, ResumeGraph, ResumeRecipe, Hitl, Write,
       WriteUnacknowledged, RefuseRecipient, UpdateCrm, SlackNotify, Finish,
       Lose, effectVars

\* A committed decision stays committed.
LEMMA DecisionsGrow ==
    ASSUME TypeOK, [Next]_vars
    PROVE  \A r \in Run : Deciders(r) \subseteq Deciders(r)' /\ Grants(r) \subseteq Grants(r)'
<1>1. ask' = ask /\ \A q \in Request : pc[q] \in Committed => pc'[q] \in Committed
  <2>1. ASSUME NEW r \in Run, Start(r) PROVE ask' = ask /\ pc' = pc
    BY <2>1, StartFrame
  <2>2. ASSUME NEW q \in Request, Decide(q)
        PROVE  ask' = ask /\ \A p \in Request : pc[p] \in Committed => pc'[p] \in Committed
    <3>1. pc[q] \in Committed => pc'[q] \in Committed
      BY <2>2 DEF Decide, Load, Commit, Resume, ResumeGraph, ResumeRecipe, Hitl,
         Write, WriteUnacknowledged, RefuseRecipient, UpdateCrm, SlackNotify,
         Finish, Lose, TypeOK, Committed
    <3> QED
      BY <2>2, <3>1, DecideFrame DEF TypeOK
  <2>3. CASE UNCHANGED vars
    BY <2>3 DEF vars
  <2> QED
    BY <2>1, <2>2, <2>3 DEF Next
<1> QED
  BY <1>1 DEF Deciders, Grants

LEMMA StartStep ==
    ASSUME IInv, TypeOK', NEW s \in Run, Start(s)
    PROVE  IInv'
<1>1. UNCHANGED <<ask, pc, at, copy, sent, filed>>
  BY StartFrame
<1>2. \A r \in Run : Deciders(r)' = Deciders(r) /\ Grants(r)' = Grants(r)
  BY <1>1 DEF Deciders, Grants
<1>3. WritesAreGranted'
  BY <1>1, <1>2 DEF IInv, WritesAreGranted
<1>4. "none" \notin GraphAgent /\ "automation_recipe" \notin GraphAgent
  BY DEF GraphAgent
\* What a start does to the run it is about, and to no other.
<1>5. /\ \A r \in Run \ {s} : /\ agent'[r] = agent[r] /\ thread'[r] = thread[r]
                              /\ row'[r] = row[r] /\ (r \in starting' <=> r \in starting)
      /\ \/ /\ agent[s] = "none" /\ agent'[s] \in GraphAgent /\ row'[s] = row[s]
            /\ thread'[s] = "hitl" \/ (thread'[s] = "end" /\ s \notin starting')
         \/ /\ s \in starting /\ s \notin starting' /\ agent'[s] = agent[s]
            /\ thread'[s] = thread[s]
            /\ row'[s] = row[s] \/ row'[s].status = "pending"
         \/ /\ agent[s] = "none" /\ agent'[s] = "automation_recipe"
            /\ thread'[s] = thread[s] /\ row'[s].status = "pending"
            /\ starting' = starting
  <2> USE DEF IInv, TypeOK, StartIsFresh
  <2>1. CASE \E a \in GraphAgent, p \in Payload : StartRun(s, a, p)
    BY <2>1 DEF StartRun
  <2>2. CASE \E a \in GraphAgent : EndBeforeHitl(s, a)
    BY <2>2 DEF EndBeforeHitl
  <2>3. CASE QueueApproval(s)
    BY <2>3 DEF QueueApproval
  <2>4. CASE LoseStart(s)
    BY <2>4 DEF LoseStart
  <2>5. CASE \E p \in Payload : EmailSend(s, p)
    BY <2>5 DEF EmailSend
  <2> QED
    BY <2>1, <2>2, <2>3, <2>4, <2>5 DEF Start
<1>6. row[s].status = "absent"
  BY <1>5 DEF IInv, StartIsFresh
<1>7. thread'[s] \notin {"write", "notify"}
  BY <1>5 DEF IInv, StartIsFresh
<1>8. UndecidedIsUntouched'
  BY <1>1, <1>2, <1>4, <1>5, <1>6 DEF IInv, UndecidedIsUntouched, StartIsFresh
<1>9. BeyondHitlIsGranted'
  BY <1>1, <1>2, <1>5, <1>7 DEF IInv, BeyondHitlIsGranted
<1>10. StartIsFresh'
  BY <1>4, <1>5, <1>6 DEF IInv, TypeOK, StartIsFresh
<1>11. LoadedHasRow'
  BY <1>1, <1>5, <1>6 DEF IInv, LoadedHasRow
<1> QED
  BY <1>3, <1>8, <1>9, <1>10, <1>11 DEF IInv

LEMMA DecideStep ==
    ASSUME IInv, TypeOK', NEW p \in Request, Decide(p)
    PROVE  IInv'
<1>1. PICK s \in Run : s = ask[p].run
  BY DEF IInv, TypeOK, Ask
<1>2. UNCHANGED <<agent, draft, starting, ask>>
  BY DecideFrame
<1>3. \A r \in Run : Deciders(r) \subseteq Deciders(r)' /\ Grants(r) \subseteq Grants(r)'
  <2>1. TypeOK /\ [Next]_vars
    BY DEF Next, IInv
  <2> QED
    BY <2>1, DecisionsGrow
<1>4. \A r \in Run \ {s} : Deciders(r)' = Deciders(r)
  <2>1. \A q \in Request \ {p} : pc'[q] = pc[q]
    BY DecideFrame DEF IInv, TypeOK
  <2> QED
    BY <1>1, <1>2, <2>1 DEF Deciders
<1>5. /\ pc[p] \in Committed => row[s].status \notin {"absent", "pending"}
      /\ pc[p] = "loaded" => row[s].status # "absent"
  BY <1>1 DEF IInv, UndecidedIsUntouched, LoadedHasRow, Deciders
\* What the request does to its own run: before its commit nothing but the
\* decision, and afterwards no decision.
<1>6. /\ \A r \in Run \ {s} : /\ row'[r] = row[r] /\ thread'[r] = thread[r]
                              /\ sent'[r] = sent[r] /\ filed'[r] = filed[r]
      /\ \A q \in Request \ {p} : pc'[q] = pc[q] /\ at'[q] = at[q]
      /\ \/ /\ pc[p] \notin Committed
            /\ pc'[p] \notin Committed /\ row' = row
            /\ UNCHANGED <<thread, at, sent, filed>>
            /\ pc'[p] = "loaded" => row[s].status = "pending"
         \/ /\ pc[p] = "loaded" /\ pc'[p] = "committed"
            /\ row'[s].status \in {"approved", "rejected"}
            /\ UNCHANGED <<thread, at, sent, filed>>
         \/ /\ pc[p] \in Committed /\ pc'[p] \in Committed /\ row' = row
  <2> USE <1>1 DEF IInv, TypeOK, Committed
  <2>1. CASE Load(p)
    BY <2>1 DEF Load, effectVars
  <2>2. CASE Commit(p)
    BY <2>2 DEF Commit, effectVars
  <2>3. CASE ResumeGraph(p)
    BY <2>3 DEF ResumeGraph, effectVars
  <2>4. CASE ResumeRecipe(p)
    BY <2>4 DEF ResumeRecipe, effectVars
  <2>5. CASE Hitl(p)
    BY <2>5 DEF Hitl, RouteAfterHitl, MoveTo, effectVars
  <2>6. CASE Write(p)
    BY <2>6 DEF Write, TookEffect, MoveTo
  <2>7. CASE WriteUnacknowledged(p)
    BY <2>7 DEF WriteUnacknowledged, TookEffect
  <2>8. CASE RefuseRecipient(p)
    BY <2>8 DEF RefuseRecipient, effectVars
  <2>9. CASE UpdateCrm(p)
    BY <2>9 DEF UpdateCrm, MoveTo
  <2>10. CASE SlackNotify(p)
    BY <2>10 DEF SlackNotify, MoveTo, effectVars
  <2>11. CASE Finish(p)
    BY <2>11 DEF Finish, effectVars
  <2>12. CASE Lose(p)
    BY <2>12 DEF Lose, effectVars
  <2> QED
    BY <2>1, <2>2, <2>3, <2>4, <2>5, <2>6, <2>7, <2>8, <2>9, <2>10, <2>11,
       <2>12 DEF Decide, Resume
\* How it moves along its graph, and when it writes.
<1>7. /\ thread'[s] \in {"write", "notify"} => Grants(s)' # {}
      /\ pc'[p] = "resuming" /\ at'[p] \in {"write", "crm", "notify"} => Grants(s)' # {}
      /\ sent'[s] # {} => Grants(s)' # {}
  <2>1. /\ thread[s] \in {"write", "notify"} => Grants(s) # {}
        /\ pc[p] = "resuming" /\ at[p] \in {"write", "crm", "notify"} => Grants(s) # {}
        /\ sent[s] # {} => Grants(s) # {}
    BY <1>1 DEF IInv, BeyondHitlIsGranted, WritesAreGranted
  <2>2. pc[p] \in Committed /\ ask[p].approve => Grants(s) # {}
    BY <1>1 DEF Grants, Deciders
  <2>3. Grants(s) # {} => Grants(s)' # {}
    BY <1>1, <1>3
  <2> USE <1>1, <2>1, <2>2, <2>3 DEF IInv, TypeOK, Committed
  <2>4. CASE Load(p) \/ Commit(p) \/ Lose(p) \/ Finish(p) \/ RefuseRecipient(p)
    BY <2>4 DEF Load, Commit, Lose, Finish, RefuseRecipient, effectVars
  <2>5. CASE ResumeGraph(p)
    BY <2>5 DEF ResumeGraph, effectVars, Node
  <2>6. CASE ResumeRecipe(p)
    BY <2>6 DEF ResumeRecipe, effectVars
  <2>7. CASE Hitl(p)
    BY <2>7 DEF Hitl, RouteAfterHitl, MoveTo, effectVars
  <2>8. CASE Write(p)
    BY <2>8 DEF Write
  <2>9. CASE WriteUnacknowledged(p)
    BY <2>9 DEF WriteUnacknowledged
  <2>10. CASE UpdateCrm(p)
    BY <2>10 DEF UpdateCrm
  <2>11. CASE SlackNotify(p)
    BY <2>11 DEF SlackNotify
  <2> QED
    BY <2>4, <2>5, <2>6, <2>7, <2>8, <2>9, <2>10, <2>11, Zenon DEF Decide, Resume
<1>8. WritesAreGranted'
  BY <1>3, <1>6, <1>7 DEF IInv, WritesAreGranted
<1>9. UndecidedIsUntouched'
  BY <1>1, <1>2, <1>4, <1>5, <1>6 DEF IInv, UndecidedIsUntouched, Deciders
<1>10. BeyondHitlIsGranted'
  BY <1>1, <1>2, <1>3, <1>6, <1>7 DEF IInv, BeyondHitlIsGranted
<1>11. StartIsFresh'
  <2>1. row[s].status = "absent" => row'[s] = row[s] /\ thread'[s] = thread[s]
    BY <1>5, <1>6 DEF IInv
  <2> QED
    BY <1>1, <1>2, <1>6, <2>1 DEF IInv, TypeOK, StartIsFresh
<1>12. LoadedHasRow'
  BY <1>1, <1>2, <1>5, <1>6 DEF IInv, LoadedHasRow
<1> QED
  BY <1>8, <1>9, <1>10, <1>11, <1>12 DEF IInv

\* The inductive invariant holds of every state of the queue.
THEOREM Inductive == Spec => []IInv
<1>1. Init => IInv
  <2> SUFFICES ASSUME Init PROVE IInv
    OBVIOUS
  <2>1. TypeOK
    BY DEF Init, TypeOK, Row, Ask, Node, AgentName, GraphAgent, Committed
  <2>2. \A r \in Run : Deciders(r) = {}
    BY DEF Init, Deciders, Committed
  <2> QED
    BY <2>1, <2>2 DEF Init, IInv, WritesAreGranted, UndecidedIsUntouched,
       BeyondHitlIsGranted, StartIsFresh, LoadedHasRow, Committed, GraphAgent
<1>2. IInv /\ [Next]_vars => IInv'
  <2> SUFFICES ASSUME IInv, [Next]_vars PROVE IInv'
    OBVIOUS
  <2>1. TypeOK'
    BY TypeStep DEF IInv
  <2>2. CASE \E r \in Run : Start(r)
    BY <2>1, <2>2, StartStep
  <2>3. CASE \E q \in Request : Decide(q)
    BY <2>1, <2>3, DecideStep
  <2>4. CASE UNCHANGED vars
    BY <2>1, <2>4 DEF vars, IInv, WritesAreGranted, UndecidedIsUntouched,
       BeyondHitlIsGranted, StartIsFresh, LoadedHasRow, Grants, Deciders
  <2> QED
    BY <2>2, <2>3, <2>4 DEF Next
<1> QED
  BY <1>1, <1>2, PTL DEF Spec

\* No write tool is called for a run no request has approved, however requests
\* overlap, are lost or pick up each other's half-finished resume.
THEOREM GrantedWrites == Spec => []WritesAreGranted
<1>1. IInv => WritesAreGranted
  BY DEF IInv
<1> QED
  BY <1>1, Inductive, PTL

\* An undecided run has been left alone: no decision, no write, its graph at hitl.
THEOREM UndecidedUntouched == Spec => []UndecidedIsUntouched
<1>1. IInv => UndecidedIsUntouched
  BY DEF IInv
<1> QED
  BY <1>1, Inductive, PTL

-----------------------------------------------------------------------------

\* Once a row is decided and no request still holds it as pending, no step
\* changes it: the 409 of decide_approval is then all the protection it needs.
THEOREM SettledRowsAreFinal == Spec => SettledIsFinal
<1>1. ASSUME IInv, [Next]_vars, NEW r \in Run, Settled(r)
      PROVE  Settled(r)' /\ row'[r] = row[r]
  <2> USE <1>1 DEF IInv, TypeOK, Settled
  <2>1. ASSUME NEW s \in Run, Start(s) PROVE row'[r] = row[r] /\ UNCHANGED <<ask, pc>>
    BY <2>1 DEF Start, StartRun, EndBeforeHitl, QueueApproval, LoseStart,
       EmailSend, StartIsFresh, requestVars
  <2>2. ASSUME NEW q \in Request, Decide(q)
        PROVE  /\ row'[r] = row[r] /\ ask' = ask
               /\ \A p \in Request : ask[p].run = r => pc'[p] # "loaded"
    <3>1. \A p \in Request \ {q} : pc'[p] = pc[p]
      BY <2>2, DecideFrame
    <3>2. row'[r] = row[r] /\ (ask[q].run = r => pc'[q] # "loaded")
      BY <2>2 DEF Decide, Load, Commit, Resume, ResumeGraph, ResumeRecipe, Hitl,
         Write, WriteUnacknowledged, RefuseRecipient, UpdateCrm, SlackNotify,
         Finish, Lose
    <3> QED
      BY <2>2, <3>1, <3>2, DecideFrame
  <2>3. CASE UNCHANGED vars
    BY <2>3 DEF vars
  <2> QED
    BY <2>1, <2>2, <2>3 DEF Next
<1>2. IInv /\ [Next]_vars
        => [\A r \in Run : Settled(r) => Settled(r)' /\ row'[r] = row[r]]_vars
  BY <1>1
<1> QED
  BY <1>2, Inductive, PTL DEF Spec, SettledIsFinal

-----------------------------------------------------------------------------

\* A request that has written is a decider of the run and is past its write.
WritesAreSpent ==
    \A r \in Run : \A c \in sent[r] :
        /\ c.by \in Deciders(r)
        /\ pc[c.by] # "committed"
        /\ pc[c.by] = "resuming" => at[c.by] \in {"crm", "notify", "end"}

LEMMA SpentStep ==
    ASSUME IInv, WritesAreSpent, [Next]_vars
    PROVE  WritesAreSpent'
<1>1. \A r \in Run : Deciders(r) \subseteq Deciders(r)'
  BY DecisionsGrow DEF IInv
<1>2. ASSUME NEW s \in Run, Start(s) PROVE WritesAreSpent'
  <2>1. UNCHANGED <<ask, pc, at, copy, sent, filed>>
    BY <1>2, StartFrame
  <2> QED
    BY <1>1, <2>1 DEF WritesAreSpent
<1>3. ASSUME NEW p \in Request, Decide(p) PROVE WritesAreSpent'
  <2>1. PICK s \in Run : s = ask[p].run
    BY DEF IInv, TypeOK, Ask
  <2>2. \A r \in Run : Deciders(r) \subseteq Request
    BY DEF Deciders
  <2>3. \A q \in Request \ {p} : pc'[q] = pc[q] /\ at'[q] = at[q]
    BY <1>3 DEF IInv, TypeOK, Decide, Load, Commit, Resume, ResumeGraph,
       ResumeRecipe, Hitl, RouteAfterHitl, MoveTo, Write, WriteUnacknowledged, RefuseRecipient,
       UpdateCrm, SlackNotify, Finish, Lose
  <2>4. pc[p] \in Committed => p \in Deciders(s)
    BY <2>1 DEF Deciders
  <2>5. \/ /\ sent' = sent
           /\ p \notin Deciders(s) \/ pc[p] = "committed" \/ pc'[p] \in {"done", "failed"}
              \/ (pc[p] = "resuming" /\ at[p] = "hitl") \/ at'[p] = "end"
           /\ pc'[p] # "committed" \/ p \notin Deciders(s)
        \/ /\ pc[p] = "resuming"
           /\ sent' = [sent EXCEPT ![s] = @ \union {[by |-> p, payload |-> copy[p]]}]
           /\ pc'[p] \in {"resuming", "failed"}
           /\ pc'[p] = "resuming" => at'[p] \in {"crm", "notify", "end"}
    <3> USE <2>1 DEF IInv, TypeOK, Committed
    <3>1. CASE Load(p) \/ Commit(p)
      BY <3>1 DEF Load, Commit, effectVars, Deciders
    <3>2. CASE ResumeGraph(p) \/ ResumeRecipe(p)
      BY <3>2 DEF ResumeGraph, ResumeRecipe, effectVars
    <3>3. CASE Hitl(p)
      BY <3>3 DEF Hitl, effectVars
    <3>4. CASE Write(p)
      BY <3>4 DEF Write, TookEffect, MoveTo, AfterWrite
    <3>5. CASE WriteUnacknowledged(p)
      BY <3>5 DEF WriteUnacknowledged, TookEffect
    <3>6. CASE RefuseRecipient(p) \/ Finish(p) \/ Lose(p)
      BY <3>6 DEF RefuseRecipient, Finish, Lose, effectVars, Deciders
    <3>7. CASE UpdateCrm(p) \/ SlackNotify(p)
      BY <3>7 DEF UpdateCrm, SlackNotify, MoveTo, effectVars
    <3> QED
      BY <1>3, <3>1, <3>2, <3>3, <3>4, <3>5, <3>6, <3>7 DEF Decide, Resume
  <2> SUFFICES ASSUME NEW r \in Run, NEW c \in sent'[r]
               PROVE  /\ c.by \in Deciders(r)'
                      /\ pc'[c.by] # "committed"
                      /\ pc'[c.by] = "resuming" => at'[c.by] \in {"crm", "notify", "end"}
    BY DEF WritesAreSpent
  <2>6. CASE c \in sent[r]
    <3>1. CASE c.by = p
      <4>1. r = s
        BY <2>1, <2>6, <3>1 DEF WritesAreSpent, Deciders
      <4> QED
        BY <1>1, <2>4, <2>5, <2>6, <3>1, <4>1 DEF WritesAreSpent
    <3>2. CASE c.by # p
      BY <1>1, <2>2, <2>3, <2>6, <3>2 DEF WritesAreSpent
    <3> QED
      BY <3>1, <3>2
  <2>7. CASE c \notin sent[r]
    <3>1. r = s /\ c.by = p /\ p \in Deciders(s)
      BY <2>4, <2>5, <2>7 DEF IInv, TypeOK, Committed
    <3> QED
      BY <1>1, <2>5, <2>7, <3>1
  <2> QED
    BY <2>6, <2>7
<1>4. CASE UNCHANGED vars
  BY <1>4 DEF vars, WritesAreSpent, Deciders
<1> QED
  BY <1>2, <1>3, <1>4 DEF Next

LEMMA Spent == Spec => []WritesAreSpent
<1>1. Init => WritesAreSpent
  BY DEF Init, WritesAreSpent
<1>2. IInv /\ WritesAreSpent /\ [Next]_vars => WritesAreSpent'
  BY SpentStep
<1> QED
  BY <1>1, <1>2, Inductive, PTL DEF Spec

\* Init and every step of the queue map to the gate's; the read of a pending
\* row, the commit and the write are the gate's steps, the rest stutters.
THEOREM Refinement == Spec => ImplementsGate
<1> DEFINE readersBar == [r \in Run |-> Readers(r)]
           grantedBar == [r \in Run |-> Grants(r)]
           refusedBar == [r \in Run |-> Deciders(r) \ Grants(r)]
           wroteBar   == [r \in Run |-> {c.by : c \in sent[r]}]
<1>3. Init => Gate!Init
  BY DEF Init, Gate!Init, Gate!NobodyYet, Readers, Grants, Deciders, Committed
<1>4. IInv /\ WritesAreSpent /\ [Next]_vars => [Gate!Next]_Gate!vars
  <2> SUFFICES ASSUME IInv, WritesAreSpent, [Next]_vars
               PROVE  [Gate!Next]_Gate!vars
    OBVIOUS
  <2>1. ASSUME UNCHANGED <<ask, sent>>,
               \A r \in Run : /\ Readers(r)' = Readers(r) /\ Deciders(r)' = Deciders(r)
                              /\ Grants(r)' = Grants(r)
        PROVE  UNCHANGED Gate!vars
    BY <2>1 DEF Gate!vars
  <2>2. ASSUME NEW s \in Run, Start(s) PROVE UNCHANGED Gate!vars
    <3>1. UNCHANGED <<ask, pc, at, copy, sent, filed>>
      BY <2>2, StartFrame
    <3> QED
      BY <2>1, <3>1 DEF Readers, Deciders, Grants
  <2>3. ASSUME NEW p \in Request, Decide(p) PROVE [Gate!Next]_Gate!vars
    <3>1. PICK s \in Run : s = ask[p].run
      BY DEF IInv, TypeOK, Ask
    <3>2. ask' = ask /\ \A q \in Request \ {p} : pc'[q] = pc[q]
      BY <2>3, DecideFrame DEF IInv, TypeOK
    <3> DEFINE Quiet ==
            /\ pc'[p] \in Committed <=> pc[p] \in Committed
            /\ (pc'[p] \in {"loaded", "gone"} \union Committed)
                 <=> (pc[p] \in {"loaded", "gone"} \union Committed)
    <3>3. ASSUME Quiet
          PROVE  \A r \in Run : /\ Readers(r)' = Readers(r) /\ Deciders(r)' = Deciders(r)
                                /\ Grants(r)' = Grants(r)
      BY <3>2, <3>3 DEF Readers, Deciders, Grants
    <3>4. CASE sent' = sent /\ Quiet
      BY <2>1, <3>2, <3>3, <3>4
    <3>5. CASE Load(p) /\ pc'[p] = "loaded"
      <4>1. pc[p] = "idle" /\ row[s].status = "pending" /\ sent' = sent
        BY <3>1, <3>5 DEF Load, IInv, TypeOK, effectVars
      <4>2. Deciders(s) = {} /\ Grants(s) = {}
        BY <4>1 DEF IInv, UndecidedIsUntouched, Grants
      <4>3. \A r \in Run : p \notin Readers(r)
        BY <4>1 DEF Readers, Committed
      <4>4. \A r \in Run : Deciders(r)' = Deciders(r) /\ Grants(r)' = Grants(r)
        BY <3>2, <3>5, <4>1 DEF Deciders, Grants, Committed
      <4>5. readersBar' = [readersBar EXCEPT ![s] = @ \union {p}]
        BY <3>1, <3>2, <3>5, <4>1 DEF Readers, Committed
      <4>6. Gate!Read(s, p)
        BY <4>1, <4>2, <4>3, <4>4, <4>5 DEF Gate!Read, Gate!Decided
      <4> QED
        BY <4>6 DEF Gate!Next
    <3>6. CASE Commit(p)
      <4>1. pc[p] = "loaded" /\ pc'[p] = "committed" /\ sent' = sent
        BY <3>6 DEF Commit, IInv, TypeOK, effectVars
      <4>2. \A r \in Run : Readers(r)' = Readers(r)
        BY <3>2, <4>1 DEF Readers, Committed
      <4>3. p \in Readers(s) /\ p \notin Deciders(s) /\ p \notin Grants(s)
        BY <3>1, <4>1 DEF Readers, Deciders, Grants, Committed
      <4>4. CASE ask[p].approve
        <5>1. grantedBar' = [grantedBar EXCEPT ![s] = @ \union {p}]
          <6>1. Grants(s)' = Grants(s) \union {p}
            BY <3>1, <3>2, <4>1, <4>4 DEF Grants, Deciders, Committed
          <6>2. \A r \in Run \ {s} : Grants(r)' = Grants(r)
            BY <3>1, <3>2 DEF Grants, Deciders
          <6> QED
            BY <6>1, <6>2
        <5>2. \A r \in Run : (Deciders(r) \ Grants(r))' = Deciders(r) \ Grants(r)
          BY <3>1, <3>2, <4>1, <4>4 DEF Grants, Deciders, Committed
        <5>3. Gate!Grant(s, p)
          BY <4>1, <4>2, <4>3, <5>1, <5>2 DEF Gate!Grant, Gate!Decided
        <5> QED
          BY <5>3 DEF Gate!Next
      <4>5. CASE ~ask[p].approve
        <5>1. refusedBar' = [refusedBar EXCEPT ![s] = @ \union {p}]
          <6>1. (Deciders(s) \ Grants(s))' = (Deciders(s) \ Grants(s)) \union {p}
            BY <3>1, <3>2, <4>1, <4>5 DEF Grants, Deciders, Committed
          <6>2. \A r \in Run \ {s} : (Deciders(r) \ Grants(r))' = Deciders(r) \ Grants(r)
            BY <3>1, <3>2 DEF Grants, Deciders
          <6> QED
            BY <6>1, <6>2
        <5>2. \A r \in Run : Grants(r)' = Grants(r)
          BY <3>1, <3>2, <4>1, <4>5 DEF Grants, Deciders, Committed
        <5>3. Gate!Refuse(s, p)
          BY <4>1, <4>2, <4>3, <5>1, <5>2 DEF Gate!Refuse, Gate!Decided
        <5> QED
          BY <5>3 DEF Gate!Next
      <4> QED
        BY <4>4, <4>5
    <3>7. CASE Write(p) \/ WriteUnacknowledged(p)
      <4>1. /\ pc[p] = "resuming" /\ at[p] = "write" /\ Quiet
            /\ sent' = [sent EXCEPT ![s] = @ \union {[by |-> p, payload |-> copy[p]]}]
        BY <3>1, <3>7 DEF Write, WriteUnacknowledged, TookEffect, IInv, TypeOK, Committed
      <4>2. Grants(s) # {}
        BY <3>1, <4>1 DEF IInv, BeyondHitlIsGranted
      <4>3. p \in Deciders(s)
        BY <3>1, <4>1 DEF Deciders, Committed
      <4>4. p \notin {c.by : c \in sent[s]}
        BY <4>1 DEF WritesAreSpent
      <4>5. wroteBar' = [wroteBar EXCEPT ![s] = @ \union {p}]
        <5>1. {c.by : c \in sent'[s]} = {c.by : c \in sent[s]} \union {p}
          <6> DEFINE call == [by |-> p, payload |-> copy[p]]
          <6>1. sent'[s] = sent[s] \union {call}
            BY <4>1 DEF IInv, TypeOK
          <6>2. call.by = p
            OBVIOUS
          <6> HIDE DEF call
          <6> QED
            BY <6>1, <6>2
        <5>2. \A r \in Run \ {s} : sent'[r] = sent[r]
          BY <4>1 DEF IInv, TypeOK
        <5> QED
          BY <5>1, <5>2
      <4>6. Gate!DoWrite(s, p)
        BY <3>3, <4>1, <4>2, <4>3, <4>4, <4>5 DEF Gate!DoWrite, Gate!Decided
      <4> QED
        BY <4>6 DEF Gate!Next
    <3>8. Load(p) => pc'[p] = "loaded" \/ (sent' = sent /\ Quiet)
      BY DEF Load, Committed, effectVars, IInv, TypeOK
    <3>9. ResumeGraph(p) \/ ResumeRecipe(p) \/ Hitl(p) \/ RefuseRecipient(p)
            \/ UpdateCrm(p) \/ SlackNotify(p) \/ Finish(p) \/ Lose(p)
          => sent' = sent /\ Quiet
      BY DEF ResumeGraph, ResumeRecipe, Hitl, RefuseRecipient, UpdateCrm,
         SlackNotify, Finish, Lose, Committed, effectVars, IInv, TypeOK
    <3> QED
      BY <2>3, <3>4, <3>5, <3>6, <3>7, <3>8, <3>9 DEF Decide, Resume
  <2>4. CASE UNCHANGED vars
    BY <2>1, <2>4 DEF vars, Readers, Deciders, Grants
  <2> QED
    BY <2>2, <2>3, <2>4 DEF Next
<1> QED
  BY <1>3, <1>4, Spent, Inductive, PTL DEF Spec, ImplementsGate, Gate!Spec
-----------------------------------------------------------------------------
(* What goes out, and what the row says of it. *)

\* With a single decision the row shows it.
RowTellsSole ==
    \A r \in Run : \A q \in Request :
        Deciders(r) = {q} =>
            row[r].status = (IF ask[q].approve THEN "approved" ELSE "rejected")

OneCallEach == \A r \in Run : \A c, d \in sent[r] : c.by = d.by => c = d

\* The arguments x are the run's draft or, of a recipe, some decider's edit.
Asked(r, x) ==
    \/ x = draft[r]
    \/ agent[r] = "automation_recipe" /\ \E q \in Deciders(r) : x = ask[q].edit

RowIsAsked ==
    \A r \in Run : agent[r] = "automation_recipe" =>
        row[r].status # "absent" /\ Asked(r, row[r].payload)

CopyIsAsked == \A q \in Request : pc[q] = "resuming" => Asked(ask[q].run, copy[q])

\* A request between the two calls of the dealer's node has sent its e-mail.
CrmIsReached ==
    \A q \in Request :
        pc[q] = "resuming" /\ at[q] = "crm" =>
            /\ agent[ask[q].run] = "dealer_onboarding"
            /\ \E c \in sent[ask[q].run] : c.by = q

OutInv ==
    /\ RowTellsSole /\ OneCallEach
    /\ RowIsAsked /\ CopyIsAsked /\ WhatGoesOut
    /\ CrmIsReached /\ CrmFollowsEmail

\* A run with a row has its agent and its draft for good.
LEMMA RunIsFixed ==
    ASSUME IInv, [Next]_vars, NEW r \in Run, row[r].status # "absent"
    PROVE  agent'[r] = agent[r] /\ draft'[r] = draft[r] /\ row'[r].status # "absent"
<1>1. agent[r] # "none" /\ r \notin starting
  BY DEF IInv, StartIsFresh
<1>2. ASSUME NEW s \in Run, Start(s)
      PROVE  agent'[r] = agent[r] /\ draft'[r] = draft[r] /\ row'[r].status # "absent"
  BY <1>1, <1>2 DEF Start, StartRun, EndBeforeHitl, QueueApproval, LoseStart, EmailSend,
                    IInv, TypeOK
<1>3. ASSUME NEW q \in Request, Decide(q)
      PROVE  agent'[r] = agent[r] /\ draft'[r] = draft[r] /\ row'[r].status # "absent"
  <2>1. row'[r] = row[r] \/ row'[r].status \in {"approved", "rejected"}
    BY <1>3 DEF Decide, Load, Commit, Resume, ResumeGraph, ResumeRecipe, Hitl,
       Write, WriteUnacknowledged, RefuseRecipient, UpdateCrm, SlackNotify,
       Finish, Lose, IInv, TypeOK
  <2> QED
    BY <1>3, <2>1, DecideFrame
<1> QED
  BY <1>2, <1>3 DEF Next, vars

LEMMA AskedGrows ==
    ASSUME IInv, [Next]_vars, NEW r \in Run, row[r].status # "absent"
    PROVE  \A x : Asked(r, x) => Asked(r, x)'
<1>1. agent'[r] = agent[r] /\ draft'[r] = draft[r]
  BY RunIsFixed
<1>2. Deciders(r) \subseteq Deciders(r)'
  BY DecisionsGrow DEF IInv
<1>3. ask' = ask
  BY StartFrame, DecideFrame DEF Next, vars
<1> QED
  BY <1>1, <1>2, <1>3 DEF Asked
\* The steps of a request p on its run s, by what they do to what goes out: it
\* decides, resumes, writes, moves the CRM, or none of these.
OthersKept(p, s) ==
    /\ \A r \in Run \ {s} : /\ row'[r] = row[r] /\ sent'[r] = sent[r]
                           /\ filed'[r] = filed[r]
    /\ \A q \in Request \ {p} : /\ pc'[q] = pc[q] /\ at'[q] = at[q]
                               /\ copy'[q] = copy[q]

Decides(p, s) ==
    /\ pc[p] = "loaded" /\ pc'[p] = "committed"
    /\ UNCHANGED <<sent, filed, copy>>
    /\ row'[s].status = (IF ask[p].approve THEN "approved" ELSE "rejected")
    /\ row'[s].payload = (IF ask[p].edit = NoPayload THEN row[s].payload ELSE ask[p].edit)

Resumes(p, s) ==
    /\ pc[p] = "committed" /\ pc'[p] = "resuming" /\ at'[p] # "crm"
    /\ UNCHANGED <<row, sent, filed>>
    /\ \/ copy'[p] = draft[s]
       \/ agent[s] = "automation_recipe" /\ copy'[p] = row[s].payload

Writes(p, s) ==
    /\ pc[p] = "resuming" /\ at[p] = "write" /\ pc'[p] \in {"resuming", "failed"}
    /\ at'[p] = "crm" => agent[s] = "dealer_onboarding"
    /\ ~RecipientRefused(p)
    /\ sent'[s] = sent[s] \union {[by |-> p, payload |-> copy[p]]}
    /\ UNCHANGED <<row, filed, copy>>

MovesCrm(p, s) ==
    /\ pc[p] = "resuming" /\ at[p] = "crm" /\ at'[p] = "end"
    /\ filed'[s] = filed[s] \union {p}
    /\ UNCHANGED <<row, sent, copy, pc>>

Otherwise(p) ==
    /\ UNCHANGED <<row, sent, filed, copy>>
    /\ pc'[p] = "resuming" => pc[p] = "resuming" /\ at'[p] # "crm"
    /\ pc'[p] \in Committed <=> pc[p] \in Committed

LEMMA DecideKinds ==
    ASSUME IInv, NEW p \in Request, Decide(p), NEW s \in Run, s = ask[p].run
    PROVE  /\ OthersKept(p, s)
           /\ Decides(p, s) \/ Resumes(p, s) \/ Writes(p, s) \/ MovesCrm(p, s) \/ Otherwise(p)
<1> USE DEF OthersKept, Decides, Resumes, Writes, MovesCrm, Otherwise
<1> USE DEF IInv, TypeOK
<1>1. CASE Load(p) \/ Finish(p) \/ Lose(p) \/ RefuseRecipient(p)
  BY <1>1 DEF Load, Finish, Lose, RefuseRecipient, effectVars, Committed
<1>2. CASE Commit(p)
  BY <1>2 DEF Commit, effectVars
<1>3. CASE ResumeGraph(p)
  BY <1>3 DEF ResumeGraph, effectVars, Node
<1>4. CASE ResumeRecipe(p)
  BY <1>4 DEF ResumeRecipe, effectVars
<1>5. CASE Hitl(p)
  BY <1>5 DEF Hitl, MoveTo, RouteAfterHitl, AfterApproval, effectVars
<1>6. CASE Write(p)
  BY <1>6 DEF Write, TookEffect, MoveTo, AfterWrite
<1>7. CASE WriteUnacknowledged(p)
  BY <1>7 DEF WriteUnacknowledged, TookEffect
<1>8. CASE UpdateCrm(p)
  BY <1>8 DEF UpdateCrm, MoveTo
<1>9. CASE SlackNotify(p)
  BY <1>9 DEF SlackNotify, MoveTo, effectVars
<1> QED
  BY <1>1, <1>2, <1>3, <1>4, <1>5, <1>6, <1>7, <1>8, <1>9 DEF Decide, Resume

LEMMA RowTellsSoleStep ==
    ASSUME IInv, OutInv, NEW p \in Request, Decide(p) PROVE RowTellsSole'
<1>1. PICK s \in Run : s = ask[p].run
  BY DEF IInv, TypeOK, Ask
<1>2. ask' = ask /\ \A q \in Request \ {p} : pc'[q] = pc[q]
  BY DecideFrame DEF IInv, TypeOK
<1>3. \A r \in Run : Deciders(r) \subseteq Deciders(r)'
  BY DecisionsGrow DEF IInv, Next
<1> SUFFICES ASSUME NEW r \in Run, NEW q \in Request, Deciders(r)' = {q}
             PROVE  row'[r].status = (IF ask[q].approve THEN "approved" ELSE "rejected")
  BY <1>2 DEF RowTellsSole
<1>k. /\ OthersKept(p, s)
      /\ Decides(p, s) \/ Resumes(p, s) \/ Writes(p, s) \/ MovesCrm(p, s) \/ Otherwise(p)
  BY <1>1, DecideKinds
<1>4. CASE r = s /\ Decides(p, s)
  <2>1. p \in Deciders(r)'
    BY <1>1, <1>2, <1>4 DEF Deciders, Committed, Decides
  <2>2. q = p
    BY <2>1
  <2> QED
    BY <1>4, <2>2 DEF Decides
<1>5. CASE ~(r = s /\ Decides(p, s))
  <2>1. row'[r] = row[r]
    BY <1>k, <1>5 DEF OthersKept, Resumes, Writes, MovesCrm, Otherwise
  <2>2. r = s => (pc'[p] \in Committed <=> pc[p] \in Committed)
    BY <1>k, <1>5 DEF Resumes, Writes, MovesCrm, Otherwise, Committed
  <2>3. Deciders(r)' = Deciders(r)
    BY <1>1, <1>2, <2>2 DEF Deciders
  <2> QED
    BY <2>1, <2>3 DEF OutInv, RowTellsSole
<1> QED
  BY <1>4, <1>5

LEMMA SentStep ==
    ASSUME IInv, WritesAreSpent, OutInv, NEW p \in Request, Decide(p)
    PROVE  OneCallEach' /\ WhatGoesOut' /\ CrmIsReached' /\ CrmFollowsEmail'
<1>1. PICK s \in Run : s = ask[p].run
  BY DEF IInv, TypeOK, Ask
<1>2. UNCHANGED <<agent, draft, ask>>
  BY DecideFrame
<1>3. \A r \in Run : Deciders(r) \subseteq Deciders(r)'
  BY DecisionsGrow DEF IInv, Next
<1>k. /\ OthersKept(p, s)
      /\ Decides(p, s) \/ Resumes(p, s) \/ Writes(p, s) \/ MovesCrm(p, s) \/ Otherwise(p)
  BY <1>1, DecideKinds
<1> DEFINE call == [by |-> p, payload |-> copy[p]]
<1>c. call.by = p /\ call.payload = copy[p]
  OBVIOUS
<1>s. Writes(p, s) => sent'[s] = sent[s] \union {call}
  BY DEF Writes
<1> HIDE DEF call
<1>4. \A r \in Run : sent[r] \subseteq sent'[r]
  BY <1>k, <1>s DEF OthersKept, Decides, Resumes, MovesCrm, Otherwise
<1>5. \A r \in Run : \A c \in sent'[r] \ sent[r] : r = s /\ c = call /\ Writes(p, s)
  BY <1>k, <1>s DEF OthersKept, Decides, Resumes, MovesCrm, Otherwise
<1>6. OneCallEach'
  <2>1. \A r \in Run : \A c \in sent[r] : Writes(p, s) => c.by # p
    BY DEF WritesAreSpent, Writes
  <2> QED
    BY <1>c, <1>5, <2>1 DEF OutInv, OneCallEach
<1>7. WhatGoesOut'
  <2> SUFFICES ASSUME NEW r \in Run, NEW c \in sent'[r]
               PROVE  /\ \/ c.payload = draft[r]
                         \/ /\ agent[r] = "automation_recipe"
                            /\ \E q \in Deciders(r)' : c.payload = ask[q].edit
                      /\ agent[r] \in Mailers => c.payload \in Permitted
    BY <1>2 DEF WhatGoesOut
  <2>1. CASE c \in sent[r]
    BY <1>3, <2>1 DEF OutInv, WhatGoesOut
  <2>2. CASE c \notin sent[r]
    <3>1. Asked(s, copy[p])
      BY <1>1, <1>5, <2>2 DEF OutInv, CopyIsAsked, Writes
    <3> QED
      BY <1>1, <1>3, <1>5, <1>c, <2>2, <3>1 DEF Asked, RecipientRefused, Writes
  <2> QED
    BY <2>1, <2>2
<1>8. CrmIsReached'
  <2> SUFFICES ASSUME NEW q \in Request, pc'[q] = "resuming", at'[q] = "crm"
               PROVE  /\ agent[ask[q].run] = "dealer_onboarding"
                      /\ \E c \in sent'[ask[q].run] : c.by = q
    BY <1>2 DEF CrmIsReached
  <2>0. ask[q].run \in Run
    BY DEF IInv, TypeOK, Ask
  <2>1. CASE pc[q] = "resuming" /\ at[q] = "crm"
    BY <1>4, <2>0, <2>1 DEF OutInv, CrmIsReached
  <2>2. CASE ~(pc[q] = "resuming" /\ at[q] = "crm")
    <3>1. q = p
      BY <1>k, <2>2 DEF OthersKept
    <3>2. Writes(p, s)
      BY <1>k, <2>2, <3>1 DEF Decides, Resumes, MovesCrm, Otherwise
    <3> QED
      BY <1>1, <1>c, <1>s, <3>1, <3>2 DEF Writes
  <2> QED
    BY <2>1, <2>2
<1>9. CrmFollowsEmail'
  <2>1. \A r \in Run : \A q \in filed'[r] \ filed[r] :
           r = s /\ q = p /\ pc[p] = "resuming" /\ at[p] = "crm"
    BY <1>k DEF OthersKept, Decides, Resumes, Writes, MovesCrm, Otherwise
  <2> QED
    BY <1>1, <1>2, <1>4, <2>1 DEF OutInv, CrmFollowsEmail, CrmIsReached
<1> QED
  BY <1>6, <1>7, <1>8, <1>9

LEMMA AskedStep ==
    ASSUME IInv, OutInv, NEW p \in Request, Decide(p)
    PROVE  RowIsAsked' /\ CopyIsAsked'
<1>1. PICK s \in Run : s = ask[p].run
  BY DEF IInv, TypeOK, Ask
<1>2. UNCHANGED <<agent, draft, ask>>
  BY DecideFrame
<1>3. \A r \in Run : row[r].status # "absent" =>
         row'[r].status # "absent" /\ \A x : Asked(r, x) => Asked(r, x)'
  BY RunIsFixed, AskedGrows DEF Next
<1>k. /\ OthersKept(p, s)
      /\ Decides(p, s) \/ Resumes(p, s) \/ Writes(p, s) \/ MovesCrm(p, s) \/ Otherwise(p)
  BY <1>1, DecideKinds
<1>4. RowIsAsked'
  <2> SUFFICES ASSUME NEW r \in Run, agent[r] = "automation_recipe"
               PROVE  row'[r].status # "absent" /\ Asked(r, row[r].payload)'
    BY <1>2 DEF RowIsAsked
  <2>1. row[r].status # "absent" /\ Asked(r, row[r].payload)
    BY DEF OutInv, RowIsAsked
  <2>2. CASE row'[r].payload = row[r].payload
    BY <1>3, <2>1, <2>2 DEF Asked
  <2>3. CASE row'[r].payload # row[r].payload
    <3>1. r = s /\ pc'[p] = "committed" /\ row'[r].payload = ask[p].edit
      BY <1>k, <2>3 DEF OthersKept, Decides, Resumes, Writes, MovesCrm, Otherwise
    <3>2. p \in Deciders(r)'
      BY <1>1, <1>2, <3>1 DEF Deciders, Committed
    <3> QED
      BY <1>2, <1>3, <2>1, <3>1, <3>2 DEF Asked
  <2> QED
    BY <2>2, <2>3
<1>5. CopyIsAsked'
  <2> SUFFICES ASSUME NEW q \in Request, pc'[q] = "resuming"
               PROVE  \A r \in Run : r = ask[q].run => Asked(r, copy[q])'
    BY <1>2 DEF CopyIsAsked, IInv, TypeOK, Ask, Asked
  <2> SUFFICES ASSUME NEW r \in Run, r = ask[q].run PROVE Asked(r, copy[q])'
    OBVIOUS
  <2>1. pc[q] \in {"committed", "resuming"}
    BY <1>k DEF OthersKept, Decides, Resumes, Writes, MovesCrm, Otherwise
  <2>2. row[r].status # "absent"
    BY <2>1 DEF IInv, LoadedHasRow, Committed
  <2>3. CASE pc[q] = "resuming"
    <3>1. copy'[q] = copy[q]
      BY <1>k, <2>3 DEF OthersKept, Decides, Resumes, Writes, MovesCrm, Otherwise
    <3>2. Asked(r, copy[q])
      BY <2>3 DEF OutInv, CopyIsAsked
    <3> QED
      BY <1>3, <2>2, <3>1, <3>2 DEF Asked
  <2>4. CASE pc[q] = "committed"
    <3>1. q = p /\ r = s /\ Resumes(p, s)
      BY <1>1, <1>k, <2>4 DEF OthersKept, Decides, Writes, MovesCrm, Otherwise
    <3>2. \/ copy'[q] = draft[r]
          \/ agent[r] = "automation_recipe" /\ copy'[q] = row[r].payload
      BY <3>1 DEF Resumes
    <3>3. \A x : x = draft[r] \/ (agent[r] = "automation_recipe" /\ x = row[r].payload)
                => Asked(r, x)
      BY DEF OutInv, RowIsAsked, Asked
    <3>4. PICK x : x = copy'[q]
      OBVIOUS
    <3>5. Asked(r, x)'
      BY <1>3, <2>2, <3>2, <3>3, <3>4
    <3> QED
      BY <3>4, <3>5 DEF Asked
  <2> QED
    BY <2>1, <2>3, <2>4
<1> QED
  BY <1>4, <1>5

LEMMA StartOut ==
    ASSUME IInv, OutInv, NEW s \in Run, Start(s) PROVE OutInv'
<1>1. UNCHANGED <<ask, pc, at, copy, sent, filed>>
  BY StartFrame
<1>2. \A r \in Run : Deciders(r)' = Deciders(r)
  BY <1>1 DEF Deciders
<1>3. row[s].status = "absent" /\ \A r \in Run \ {s} : row'[r] = row[r]
  BY DEF Start, StartRun, EndBeforeHitl, QueueApproval, LoseStart, EmailSend,
         IInv, TypeOK, StartIsFresh
<1>4. Deciders(s) = {} /\ sent[s] = {} /\ filed[s] = {}
  BY <1>3 DEF IInv, UndecidedIsUntouched
<1>5. \A r \in Run \ {s} : agent'[r] = agent[r] /\ draft'[r] = draft[r]
  BY DEF Start, StartRun, EndBeforeHitl, QueueApproval, LoseStart, EmailSend,
         IInv, TypeOK
<1>6. \A q \in Request : pc[q] = "resuming" => ask[q].run \in Run \ {s}
  BY <1>3 DEF IInv, TypeOK, Ask, LoadedHasRow, Committed
<1>7. agent'[s] = "automation_recipe" =>
         row'[s].status # "absent" /\ row'[s].payload = draft'[s]
  BY <1>3 DEF Start, StartRun, EndBeforeHitl, QueueApproval, LoseStart, EmailSend,
         IInv, TypeOK, StartIsFresh, GraphAgent, OutInv, RowIsAsked
<1>8. RowTellsSole' /\ OneCallEach'
  BY <1>1, <1>2, <1>3, <1>4 DEF OutInv, RowTellsSole, OneCallEach
<1>9. RowIsAsked'
  BY <1>1, <1>2, <1>3, <1>5, <1>7 DEF OutInv, RowIsAsked, Asked
<1>10. CopyIsAsked' /\ CrmIsReached'
  BY <1>1, <1>2, <1>5, <1>6 DEF OutInv, CopyIsAsked, CrmIsReached, Asked
<1>11. WhatGoesOut' /\ CrmFollowsEmail'
  BY <1>1, <1>2, <1>4, <1>5 DEF OutInv, WhatGoesOut, CrmFollowsEmail
<1> QED
  BY <1>8, <1>9, <1>10, <1>11 DEF OutInv

LEMMA OutInvariant == Spec => []OutInv
<1>1. Init => OutInv
  <2> SUFFICES ASSUME Init PROVE OutInv
    OBVIOUS
  <2>1. \A r \in Run : Deciders(r) = {}
    BY DEF Init, Deciders, Committed
  <2> QED
    BY <2>1 DEF Init, OutInv, RowTellsSole, OneCallEach, RowIsAsked, CopyIsAsked,
       WhatGoesOut, CrmIsReached, CrmFollowsEmail
<1>2. IInv /\ WritesAreSpent /\ OutInv /\ [Next]_vars => OutInv'
  <2> SUFFICES ASSUME IInv, WritesAreSpent, OutInv, [Next]_vars PROVE OutInv'
    OBVIOUS
  <2>1. ASSUME NEW p \in Request, Decide(p) PROVE OutInv'
    BY <2>1, RowTellsSoleStep, SentStep, AskedStep DEF OutInv
  <2>2. CASE UNCHANGED vars
    BY <2>2 DEF vars, OutInv, RowTellsSole, OneCallEach, RowIsAsked, CopyIsAsked,
       WhatGoesOut, CrmIsReached, CrmFollowsEmail, Deciders, Asked
  <2> QED
    BY <2>1, <2>2, StartOut DEF Next
<1> QED
  BY <1>1, <1>2, Inductive, Spent, PTL DEF Spec

\* A run that a single request decided: its row shows that decision, a rejected
\* one wrote nothing, and an approved one at most once, by that request.
THEOREM SoleDecisions == Spec => []SoleDecisionIsHonoured
<1>1. IInv /\ WritesAreSpent /\ OutInv => SoleDecisionIsHonoured
  <2> SUFFICES ASSUME IInv, WritesAreSpent, OutInv,
                      NEW r \in Run, NEW q \in Request, Deciders(r) = {q}
               PROVE  /\ row[r].status = (IF ask[q].approve THEN "approved" ELSE "rejected")
                      /\ \A c \in sent[r] : c.by = q /\ ask[q].approve
                      /\ Cardinality(sent[r]) <= 1
    BY DEF SoleDecisionIsHonoured
  <2>1. row[r].status = (IF ask[q].approve THEN "approved" ELSE "rejected")
    BY DEF OutInv, RowTellsSole
  <2>2. \A c \in sent[r] : c.by = q /\ ask[q].approve
    BY DEF WritesAreSpent, IInv, WritesAreGranted, Grants
  <2>3. Cardinality(sent[r]) <= 1
    <3>1. CASE sent[r] = {}
      BY <3>1, FS_EmptySet
    <3>2. ASSUME NEW c \in sent[r] PROVE Cardinality(sent[r]) <= 1
      <4>1. sent[r] = {c}
        BY <2>2 DEF OutInv, OneCallEach
      <4>2. Cardinality({c}) = 1
        BY FS_Singleton, Zenon
      <4> QED
        BY <4>1, <4>2
    <3> QED
      BY <3>1, <3>2
  <2> QED
    BY <2>1, <2>2, <2>3
<1> QED
  BY <1>1, Inductive, Spent, OutInvariant, PTL

\* What leaves is the draft the graph held at its interrupt or, of a recipe, the
\* draft or a decider's edit; an e-mail only goes to a permitted recipient.
THEOREM Outgoing == Spec => []WhatGoesOut
<1>1. OutInv => WhatGoesOut
  BY DEF OutInv
<1> QED
  BY <1>1, OutInvariant, PTL

\* The dealer's CRM status moves only after the same request's e-mail went out,
\* although any request may pick the thread up between the two calls.
THEOREM CrmAfterEmail == Spec => []CrmFollowsEmail
<1>1. OutInv => CrmFollowsEmail
  BY DEF OutInv
<1> QED
  BY <1>1, OutInvariant, PTL
=============================================================================
