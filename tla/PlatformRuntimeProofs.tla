------------------------ MODULE PlatformRuntimeProofs ------------------------
(***************************************************************************)
(* Proofs about the parts of Platform that the agents run under:           *)
(* KillSwitch, for any names, requests, processes and TTL, AgentGraph, for *)
(* any tools, risk classes, threads and evaluation results, SemanticCache, *)
(* for any requests and questions, and Access, for any roles and requests. *)
(*                                                                         *)
(* Neither property of the kill switch is inductive.  That a process       *)
(* cannot run a graph long after a pause follows from what it has cached   *)
(* being younger than the flag is old (AnswersAreYounger); that row and    *)
(* flag agree, from how far the only request under way has come            *)
(* (RequestIsAlone and its parts).  Of the graph the strengthening is      *)
(* what stands before its tools (CallIsCleared).  An answer is fresh       *)
(* because what is filed was computed no earlier than its generation       *)
(* (FiledFresh), unless it is marked late.  A removed role stays away      *)
(* because of what each request read (RequestsAreSound).                   *)
(***************************************************************************)
EXTENDS Platform, FiniteSetTheorems, SequenceTheorems, TLAPS

-----------------------------------------------------------------------------
(* The kill switch. *)

\* A flag that is down has been up for no time.
DownIsFresh == \A n \in Name : ~ flag[n] => held[n] = 0

\* A process that may still run a graph asked after the flag went up.
AnswersAreYounger ==
    \A p \in Process, n \in Name : Switch!Runs(p, n) => held[n] <= cache[p][n].age

PauseInv == Switch!TypeOK /\ DownIsFresh /\ AnswersAreYounger

Whole == name # NoName /\ ~ torn

\* While nothing has gone wrong there is one request at most.
RequestIsAlone ==
    Whole => \A r, q \in Request :
        op[r] # Switch!Free /\ op[q] # Switch!Free => r = q

\* It is about the row as it stands, and has or has not changed it.
RequestIsCurrent ==
    Whole => \A r \in Request : op[r] # Switch!Free =>
        /\ op[r].name = name
        /\ op[r].step = "read" => op[r].was = status
        /\ op[r].step = "committed" => status = Switch!Wanted[op[r].kind]

\* Row and flag differ only between its two writes.
ApartWhileCommitted ==
    Whole /\ (\A r \in Request : op[r] # Switch!Free => op[r].step = "read")
        => (flag[name] <=> status = "paused")

StatusInv ==
    Switch!TypeOK /\ RequestIsAlone /\ RequestIsCurrent /\ ApartWhileCommitted

-----------------------------------------------------------------------------
\* Every step of a request, a process, the registry or the clock keeps types.
LEMMA SwitchTypeStep ==
    ASSUME Switch!SwitchAssumption, Switch!TypeOK, [Switch!Next]_(Switch!vars)
    PROVE Switch!TypeOK'
<1> USE DEF Switch!TypeOK, Switch!SwitchAssumption, Switch!Status
<1>1. ASSUME NEW n \in Name, Switch!Create(n) \/ Switch!Rename(n)
      PROVE Switch!TypeOK'
  BY <1>1 DEF Switch!Create, Switch!Rename, Switch!Busy
<1>2. CASE Switch!Delete
  BY <1>2 DEF Switch!Delete
<1>3. ASSUME NEW r \in Request, NEW kind \in DOMAIN Switch!Wanted,
             Switch!Read(r, kind)
      PROVE Switch!TypeOK'
  BY <1>3 DEF Switch!Read, Switch!Underway, Switch!Busy
<1>4. ASSUME NEW r \in Request, Switch!Commit(r) PROVE Switch!TypeOK'
  <2>1. op[r] \in Switch!Underway
    BY <1>4 DEF Switch!Commit, Switch!Free
  <2>2. [op[r] EXCEPT !.step = "committed"] \in Switch!Underway
    BY <2>1 DEF Switch!Underway
  <2>3. status' \in Switch!Status
    BY <1>4, <2>1
       DEF Switch!Commit, Switch!Written, Switch!Wanted, Switch!Underway
  <2> QED
    BY <1>4, <2>2, <2>3 DEF Switch!Commit
<1>5. ASSUME NEW r \in Request, Switch!WriteFlag(r) PROVE Switch!TypeOK'
  <2>1. op[r] \in Switch!Underway
    BY <1>5 DEF Switch!WriteFlag, Switch!Free
  <2>2. op[r].name \in Name
    BY <2>1 DEF Switch!Underway
  <2>3. flag' \in [Name -> BOOLEAN] /\ held' \in [Name -> 0..TTL]
    BY <1>5, <2>2 DEF Switch!WriteFlag
  <2> QED
    BY <1>5, <2>3 DEF Switch!WriteFlag
<1>6. ASSUME NEW r \in Request, Switch!Break(r) PROVE Switch!TypeOK'
  BY <1>6 DEF Switch!Break
<1>7. ASSUME NEW p \in Process, Switch!Restart(p) PROVE Switch!TypeOK'
  BY <1>7 DEF Switch!Restart
<1>8. ASSUME NEW p \in Process, NEW n \in Name, Switch!Ask(p, n)
      PROVE Switch!TypeOK'
  <2>1. [known |-> TRUE, paused |-> flag[n], age |-> 0] \in Switch!Answer
    BY DEF Switch!Answer
  <2> QED
    BY <1>8, <2>1 DEF Switch!Ask
<1>9. CASE Switch!Tick
  <2>1. \A age \in 0..TTL : Switch!Older(age) \in 0..TTL
    BY DEF Switch!Older
  <2>2. held' \in [Name -> 0..TTL]
    BY <1>9, <2>1 DEF Switch!Tick
  <2>3. ASSUME NEW p \in Process, NEW n \in Name, cache[p][n].known
        PROVE [cache[p][n] EXCEPT !.age = Switch!Older(@)] \in Switch!Answer
    <3>1. cache[p][n] \in Switch!Answer
      BY <2>3 DEF Switch!Unknown
    <3> QED
      BY <3>1, <2>1 DEF Switch!Answer
  <2>4. cache' \in [Process -> [Name -> {Switch!Unknown} \cup Switch!Answer]]
    BY <1>9, <2>3 DEF Switch!Tick
  <2> QED
    BY <1>9, <2>2, <2>4 DEF Switch!Tick
<1>10. CASE UNCHANGED Switch!vars
  BY <1>10 DEF Switch!vars
<1> QED
  BY <1>1, <1>2, <1>3, <1>4, <1>5, <1>6, <1>7, <1>8, <1>9, <1>10 DEF Switch!Next

LEMMA SwitchTypeInit == ASSUME Switch!SwitchAssumption
PROVE Switch!Init => Switch!TypeOK
<1> USE DEF Switch!Init, Switch!SwitchAssumption
<1>1. Switch!Init => cache \in [Process -> [Name -> {Switch!Unknown} \cup Switch!Answer]]
  OBVIOUS
<1>2. Switch!Init => flag \in [Name -> BOOLEAN] /\ held \in [Name -> 0..TTL]
  OBVIOUS
<1> QED
  BY <1>1, <1>2 DEF Switch!TypeOK, Switch!Status

\* The row, the flags, the requests and the caches keep their types.
LEMMA SwitchTypes == ASSUME Switch!SwitchAssumption
PROVE Switch!Spec => []Switch!TypeOK
<1>1. Switch!TypeOK /\ [Switch!Next]_(Switch!vars) => Switch!TypeOK'
  BY SwitchTypeStep
<1> QED
  BY SwitchTypeInit, <1>1, PTL DEF Switch!Spec

-----------------------------------------------------------------------------
\* Older adds a second up to TTL, and keeps what is less.
LEMMA OlderBounds ==
    ASSUME Switch!SwitchAssumption, NEW i \in 0..TTL, NEW j \in 0..TTL
    PROVE  /\ Switch!Older(i) \in 0..TTL
           /\ i <= j => Switch!Older(i) <= Switch!Older(j)
           /\ Switch!Older(j) < TTL => j < TTL
BY DEF Switch!Older, Switch!SwitchAssumption

\* An answer that is known has an age and says whether the agent is paused.
LEMMA KnownIsAnswer ==
    ASSUME Switch!TypeOK, NEW p \in Process, NEW n \in Name, cache[p][n].known
    PROVE  /\ cache[p][n] \in Switch!Answer
           /\ cache[p][n].age \in 0..TTL
<1>1. cache[p][n] \in Switch!Answer
  BY DEF Switch!TypeOK, Switch!Unknown
<1> QED
  BY <1>1 DEF Switch!Answer

\* What a process has cached stays younger than the flag is old.
LEMMA PauseStep ==
    ASSUME Switch!SwitchAssumption, PauseInv, [Switch!Next]_(Switch!vars)
    PROVE PauseInv'
<1>t. Switch!TypeOK'
  BY SwitchTypeStep DEF PauseInv
<1> USE DEF PauseInv, DownIsFresh, AnswersAreYounger, Switch!Runs, Switch!Fresh
<1>1. CASE UNCHANGED <<flag, held, cache>>
  BY <1>1, <1>t
<1>2. ASSUME NEW r \in Request, Switch!WriteFlag(r) PROVE PauseInv'
  <2>1. \A n \in Name : held'[n] = held[n] \/ held'[n] = 0
    BY <1>2 DEF Switch!WriteFlag, Switch!TypeOK
  <2>2. DownIsFresh'
    BY <1>2 DEF Switch!WriteFlag, Switch!TypeOK
  <2>3. AnswersAreYounger'
    <3> SUFFICES ASSUME NEW p \in Process, NEW n \in Name, Switch!Runs(p, n)'
                 PROVE  held'[n] <= cache'[p][n].age
      OBVIOUS
    <3>1. cache' = cache /\ Switch!Runs(p, n)
      BY <1>2 DEF Switch!WriteFlag
    <3>2. cache[p][n].age \in 0..TTL
      BY <3>1, KnownIsAnswer
    <3> QED
      BY <2>1, <3>1, <3>2 DEF Switch!SwitchAssumption
  <2> QED
    BY <1>t, <2>2, <2>3
<1>3. ASSUME NEW p \in Process, Switch!Restart(p) PROVE PauseInv'
  BY <1>3, <1>t DEF Switch!Restart, Switch!Unknown, Switch!TypeOK
<1>4. ASSUME NEW p \in Process, NEW n \in Name, Switch!Ask(p, n) PROVE PauseInv'
  BY <1>4, <1>t DEF Switch!Ask, Switch!TypeOK
<1>5. CASE Switch!Tick
  <2>1. DownIsFresh'
    BY <1>5 DEF Switch!Tick
  <2>2. AnswersAreYounger'
    <3> SUFFICES ASSUME NEW p \in Process, NEW n \in Name, Switch!Runs(p, n)'
                 PROVE  held'[n] <= cache'[p][n].age
      OBVIOUS
    <3>1. cache[p][n].known
      BY <1>5 DEF Switch!Tick, Switch!Unknown
    <3>2. cache[p][n] \in Switch!Answer
      BY <3>1, KnownIsAnswer
    <3>3. cache'[p][n] = [cache[p][n] EXCEPT !.age = Switch!Older(@)]
      BY <1>5, <3>1 DEF Switch!Tick
    <3>4. cache'[p][n].age = Switch!Older(cache[p][n].age) /\ cache[p][n].age \in 0..TTL
      BY <3>2, <3>3 DEF Switch!Answer
    <3>5. ~ cache[p][n].paused /\ cache[p][n].age < TTL
      BY <3>2, <3>3, <3>4, OlderBounds DEF Switch!Answer
    <3>6. held[n] \in 0..TTL /\ held[n] <= cache[p][n].age
      BY <3>1, <3>5 DEF Switch!TypeOK
    <3>7. held'[n] = Switch!Older(held[n]) \/ held'[n] = 0
      BY <1>5 DEF Switch!Tick
    <3>8. /\ Switch!Older(cache[p][n].age) \in 0..TTL
            /\ Switch!Older(held[n]) <= Switch!Older(cache[p][n].age)
      BY <3>4, <3>6, OlderBounds
    <3> QED
      BY <3>4, <3>7, <3>8 DEF Switch!SwitchAssumption
  <2> QED
    BY <1>t, <2>1, <2>2
<1> QED
  BY <1>1, <1>2, <1>3, <1>4, <1>5
     DEF Switch!Next, Switch!Create, Switch!Rename, Switch!Delete, Switch!Read,
         Switch!Commit, Switch!Break, Switch!vars

\* A pause that has reached Redis reaches every process TTL seconds later.
LEMMA SwitchPauses ==
    ASSUME Switch!SwitchAssumption
    PROVE Switch!Spec => []Switch!PauseReachesEveryProcess
<1>1. Switch!Init => PauseInv
  <2> SUFFICES ASSUME Switch!Init PROVE DownIsFresh /\ AnswersAreYounger
    BY SwitchTypeInit DEF PauseInv
  <2>1. \A p \in Process, n \in Name : ~ cache[p][n].known
    BY DEF Switch!Init, Switch!Unknown
  <2> QED
    BY <2>1
       DEF Switch!Init, DownIsFresh, AnswersAreYounger, Switch!Runs,
           Switch!Fresh
<1>2. PauseInv /\ [Switch!Next]_(Switch!vars) => PauseInv'
  BY PauseStep
<1>3. PauseInv => Switch!PauseReachesEveryProcess
  <2> SUFFICES ASSUME PauseInv, NEW p \in Process, NEW n \in Name, Switch!Runs(p, n)
               PROVE  held[n] < TTL
    BY DEF Switch!PauseReachesEveryProcess
  <2>1. cache[p][n].age \in 0..TTL /\ held[n] \in 0..TTL
    BY KnownIsAnswer DEF PauseInv, Switch!TypeOK, Switch!Runs, Switch!Fresh
  <2> QED
    BY <2>1
       DEF PauseInv, AnswersAreYounger, Switch!Runs, Switch!Fresh,
           Switch!SwitchAssumption
<1> QED
  BY <1>1, <1>2, <1>3, PTL DEF Switch!Spec

-----------------------------------------------------------------------------
\* The three parts about requests hold after every step of a request.
LEMMA RequestStep ==
    ASSUME Switch!SwitchAssumption, StatusInv, NEW r \in Request,
           (\E kind \in DOMAIN Switch!Wanted : Switch!Read(r, kind)) \/ Switch!Commit(r)
               \/ Switch!WriteFlag(r) \/ Switch!Break(r)
    PROVE  RequestIsAlone' /\ RequestIsCurrent' /\ ApartWhileCommitted'
<1>0. op \in [Request -> {Switch!Free} \cup Switch!Underway]
  BY DEF StatusInv, Switch!TypeOK
<1> USE DEF StatusInv, RequestIsAlone, RequestIsCurrent, ApartWhileCommitted, Whole
<1>1. ASSUME NEW kind \in DOMAIN Switch!Wanted, Switch!Read(r, kind)
      PROVE  RequestIsAlone' /\ RequestIsCurrent' /\ ApartWhileCommitted'
  <2> SUFFICES ASSUME Whole'
               PROVE  RequestIsAlone' /\ RequestIsCurrent' /\ ApartWhileCommitted'
    OBVIOUS
  <2>1. Whole /\ ~ Switch!Busy
    BY <1>1 DEF Switch!Read
  <2>2. /\ op'[r] = [step |-> "read", kind |-> kind, name |-> name, was |-> status]
        /\ \A q \in Request \ {r} : op'[q] = Switch!Free
    BY <1>0, <1>1, <2>1 DEF Switch!Read, Switch!Busy
  <2>3. name' = name /\ status' = status /\ flag' = flag
    BY <1>1 DEF Switch!Read
  <2>4. flag[name] <=> status = "paused"
    BY <2>1 DEF Switch!Busy
  <2> QED
    BY <2>2, <2>3, <2>4
<1>2. CASE Switch!Commit(r)
  <2> SUFFICES ASSUME Whole'
               PROVE  RequestIsAlone' /\ RequestIsCurrent' /\ ApartWhileCommitted'
    OBVIOUS
  <2>1. Whole /\ name' = name /\ flag' = flag /\ op[r] # Switch!Free
    BY <1>2 DEF Switch!Commit, Switch!Free
  <2>2. op[r] \in Switch!Underway /\ op[r].name = name /\ op[r].was = status
    BY <1>0, <1>2, <2>1 DEF Switch!Commit
  <2>3. \A q \in Request \ {r} : op[q] = Switch!Free
    BY <2>1
  <2>4. status' = Switch!Wanted[op[r].kind]
    BY <1>2, <2>1, <2>2 DEF Switch!Commit, Switch!Written
  <2>5. /\ op'[r] = [op[r] EXCEPT !.step = "committed"]
        /\ \A q \in Request \ {r} : op'[q] = Switch!Free
    BY <1>0, <1>2, <2>3 DEF Switch!Commit
  <2>6. /\ op'[r].step = "committed" /\ op'[r].name = name /\ op'[r].kind = op[r].kind
        /\ op'[r] # Switch!Free
    BY <2>2, <2>5 DEF Switch!Underway, Switch!Free
  <2> QED
    BY <2>1, <2>4, <2>5, <2>6
<1>3. CASE Switch!WriteFlag(r)
  <2> SUFFICES ASSUME Whole'
               PROVE  RequestIsAlone' /\ RequestIsCurrent' /\ ApartWhileCommitted'
    OBVIOUS
  <2>1. op[r] \in Switch!Underway /\ op[r].name \in Name
    BY <1>0, <1>3 DEF Switch!WriteFlag, Switch!Free, Switch!Underway
  <2>2. name' = name /\ status' = status /\ op' = [op EXCEPT ![r] = Switch!Free]
    BY <1>3 DEF Switch!WriteFlag
  <2>3. /\ op[r].name = name /\ status = Switch!Wanted[op[r].kind]
        /\ \A q \in Request \ {r} : op[q] = Switch!Free
    <3>1. op[r].step = "committed" /\ op[r] # Switch!Free
      BY <1>3 DEF Switch!WriteFlag, Switch!Free
    <3>2. CASE torn
      BY <1>3, <3>2 DEF Switch!WriteFlag
    <3>3. CASE ~ torn
      BY <2>2, <3>1, <3>3
    <3> QED
      BY <3>2, <3>3
  <2>4. \A q \in Request : op'[q] = Switch!Free
    BY <1>0, <2>2, <2>3
  <2>5. flag'[name] <=> op[r].kind = "pause"
    BY <1>3, <2>1, <2>3 DEF Switch!WriteFlag, Switch!TypeOK
  <2>6. op[r].kind \in {"pause", "resume"}
    BY <2>1 DEF Switch!Underway, Switch!Wanted
  <2> QED
    BY <2>2, <2>3, <2>4, <2>5, <2>6 DEF Switch!Wanted
<1>4. CASE Switch!Break(r)
  <2> SUFFICES ASSUME Whole'
               PROVE  RequestIsAlone' /\ RequestIsCurrent' /\ ApartWhileCommitted'
    OBVIOUS
  <2>1. Whole /\ op[r].step # "committed" /\ op[r] \in Switch!Underway
    BY <1>0, <1>4 DEF Switch!Break
  <2>2. \A q \in Request : op'[q] = Switch!Free
    BY <1>0, <1>4, <2>1 DEF Switch!Break
  <2>3. op[r].step = "read" /\ \A q \in Request \ {r} : op[q] = Switch!Free
    BY <1>4, <2>1 DEF Switch!Break, Switch!Underway
  <2>4. flag[name] <=> status = "paused"
    BY <2>1, <2>3
  <2> QED
    BY <1>4, <2>2, <2>4 DEF Switch!Break
<1> QED
  BY <1>1, <1>2, <1>3, <1>4

\* And after every other step.
LEMMA StatusStep ==
    ASSUME Switch!SwitchAssumption, StatusInv, [Switch!Next]_(Switch!vars)
    PROVE StatusInv'
<1>t. Switch!TypeOK'
  BY SwitchTypeStep DEF StatusInv
<1>0. op \in [Request -> {Switch!Free} \cup Switch!Underway]
  BY DEF StatusInv, Switch!TypeOK
<1>1. ASSUME NEW r \in Request,
             (\E kind \in DOMAIN Switch!Wanted : Switch!Read(r, kind)) \/ Switch!Commit(r)
                 \/ Switch!WriteFlag(r) \/ Switch!Break(r)
      PROVE  StatusInv'
  BY <1>1, <1>t, RequestStep DEF StatusInv
<1> USE DEF StatusInv, RequestIsAlone, RequestIsCurrent, ApartWhileCommitted, Whole
<1>2. ASSUME NEW n \in Name, Switch!Create(n) PROVE StatusInv'
  BY <1>2, <1>t DEF Switch!Create, Switch!Busy
<1>3. ASSUME NEW n \in Name, Switch!Rename(n) PROVE StatusInv'
  <2>1. op' = op /\ status' = status /\ flag' = flag
    BY <1>3 DEF Switch!Rename
  <2>2. Whole' => Whole /\ ~ Switch!Busy /\ flag[name'] = flag[name]
    BY <1>3 DEF Switch!Rename
  <2> QED
    BY <1>t, <2>1, <2>2 DEF Switch!Busy
<1>4. CASE Switch!Delete
  BY <1>4, <1>t DEF Switch!Delete
<1>5. CASE UNCHANGED <<name, status, flag, op, torn>>
  BY <1>5, <1>t
<1> QED
  BY <1>1, <1>2, <1>3, <1>4, <1>5
     DEF Switch!Next, Switch!Restart, Switch!Ask, Switch!Tick, Switch!vars

\* What the console shows is what the runtime enforces, unless a request ended
\* half-way, two overlapped, or the agent was renamed or given a used name.
LEMMA SwitchStatus ==
    ASSUME Switch!SwitchAssumption PROVE Switch!Spec => []Switch!StatusAgrees
<1>1. Switch!Init => StatusInv
  BY SwitchTypeInit
     DEF StatusInv, Switch!Init, RequestIsAlone, RequestIsCurrent,
         ApartWhileCommitted, Whole
<1>2. StatusInv /\ [Switch!Next]_(Switch!vars) => StatusInv'
  BY StatusStep
<1>3. StatusInv => Switch!StatusAgrees
  BY DEF StatusInv, Switch!StatusAgrees, ApartWhileCommitted, Whole, Switch!Busy
<1> QED
  BY <1>1, <1>2, <1>3, PTL DEF Switch!Spec

-----------------------------------------------------------------------------
(* The base graph. *)

\* What stands before the tool or at it was approved or needs no approval;
\* and a thread that waits for an approval holds a call.
CallIsCleared ==
    \A h \in Thread :
        /\ at[h] \in {"hitl", "execute_tool", "tool"} => call[h] \in Tool
        /\ at[h] \in {"execute_tool", "tool"} =>
              granted[h] \/ ~ Graph!RequiresApproval(RiskOf[call[h]], SpecOf[h])

GraphInv == Graph!TypeOK /\ CallIsCleared /\ Graph!ReadOnlyHolds

-----------------------------------------------------------------------------
LEMMA GraphInit == ASSUME Graph!GraphAssumption PROVE Graph!Init => GraphInv
<1> SUFFICES ASSUME Graph!Init PROVE GraphInv
  OBVIOUS
<1>1. \A h \in Thread : at[h] = "end"
  BY DEF Graph!Init
<1>2. Graph!TypeOK
  <2>1. \A flags \in {paused, rejected, blocked, granted} :
            flags = [h \in Thread |-> FALSE]
    BY DEF Graph!Init
  <2>2. \A flags \in {paused, rejected, blocked, granted} :
            flags \in [Thread -> BOOLEAN]
    BY <2>1
  <2> QED
    BY <2>2 DEF Graph!Init, Graph!TypeOK, Graph!Node
<1> QED
  BY <1>1, <1>2 DEF GraphInv, CallIsCleared, Graph!ReadOnlyHolds

\* Every node, every answer of a person and every switch keeps the types.
LEMMA GraphTypeStep ==
    ASSUME Graph!GraphAssumption, Graph!TypeOK, [Graph!Next]_(Graph!vars)
    PROVE Graph!TypeOK'
<1> USE DEF Graph!TypeOK, Graph!Node, Graph!Goto
<1>1. ASSUME NEW h \in Thread, Graph!Invoke(h) PROVE Graph!TypeOK'
  BY <1>1 DEF Graph!Invoke
<1>2. ASSUME NEW h \in Thread, NEW answer \in BOOLEAN,
             Graph!KillswitchGate(h, answer)
      PROVE Graph!TypeOK'
  BY <1>2 DEF Graph!KillswitchGate
<1>3. ASSUME NEW h \in Thread, NEW t \in Tool \cup {NoTool},
             Graph!CallModel(h, t)
      PROVE Graph!TypeOK'
  BY <1>3 DEF Graph!CallModel, Graph!RouteAfterModel
<1>4. ASSUME NEW h \in Thread, NEW approved \in BOOLEAN,
             Graph!Resume(h, approved)
      PROVE Graph!TypeOK'
  BY <1>4 DEF Graph!Resume, Graph!RouteAfterHitl
<1>5. ASSUME NEW h \in Thread, Graph!ExecuteTool(h) PROVE Graph!TypeOK'
  BY <1>5 DEF Graph!ExecuteTool, Graph!BlocksTool, Graph!IsWrite
<1>6. ASSUME NEW h \in Thread, Graph!RunTool(h) \/ Graph!Fail(h)
      PROVE Graph!TypeOK'
  BY <1>6 DEF Graph!RunTool, Graph!Fail
<1>7. ASSUME NEW enabled \in BOOLEAN, Graph!SetReadOnly(enabled)
      PROVE Graph!TypeOK'
  BY <1>7 DEF Graph!SetReadOnly
<1>8. CASE UNCHANGED Graph!vars
  BY <1>8 DEF Graph!vars
<1> QED
  BY <1>1, <1>2, <1>3, <1>4, <1>5, <1>6, <1>7, <1>8 DEF Graph!Next

\* No step leads a call to its tool that was not cleared, or past the gate of
\* read-only mode.
LEMMA ClearedStep ==
    ASSUME Graph!GraphAssumption, GraphInv, [Graph!Next]_(Graph!vars)
    PROVE GraphInv'
<1>t. Graph!TypeOK'
  BY GraphTypeStep DEF GraphInv
<1> USE DEF GraphInv, Graph!TypeOK, CallIsCleared, Graph!ReadOnlyHolds, Graph!Goto
<1>1. ASSUME NEW h \in Thread, Graph!Invoke(h) PROVE GraphInv'
  BY <1>1, <1>t DEF Graph!Invoke
<1>2. ASSUME NEW h \in Thread, NEW answer \in BOOLEAN,
             Graph!KillswitchGate(h, answer)
      PROVE GraphInv'
  BY <1>2, <1>t DEF Graph!KillswitchGate
<1>3. ASSUME NEW h \in Thread, NEW t \in Tool \cup {NoTool},
             Graph!CallModel(h, t)
      PROVE GraphInv'
  <2>1. CallIsCleared'
    BY <1>3 DEF Graph!CallModel, Graph!RouteAfterModel
  <2>2. Graph!ReadOnlyHolds'
    BY <1>3 DEF Graph!CallModel, Graph!RouteAfterModel
  <2> QED
    BY <1>t, <2>1, <2>2
<1>4. ASSUME NEW h \in Thread, NEW approved \in BOOLEAN,
             Graph!Resume(h, approved)
      PROVE GraphInv'
  <2>1. CallIsCleared'
    BY <1>4 DEF Graph!Resume, Graph!RouteAfterHitl
  <2>2. Graph!ReadOnlyHolds'
    BY <1>4 DEF Graph!Resume, Graph!RouteAfterHitl
  <2> QED
    BY <1>t, <2>1, <2>2
<1>5. ASSUME NEW h \in Thread, Graph!ExecuteTool(h) PROVE GraphInv'
  BY <1>5, <1>t DEF Graph!ExecuteTool, Graph!BlocksTool
<1>6. ASSUME NEW h \in Thread, Graph!RunTool(h) \/ Graph!Fail(h) PROVE GraphInv'
  BY <1>6, <1>t DEF Graph!RunTool, Graph!Fail
<1>7. ASSUME NEW enabled \in BOOLEAN, Graph!SetReadOnly(enabled) PROVE GraphInv'
  BY <1>7, <1>t DEF Graph!SetReadOnly
<1>8. CASE UNCHANGED Graph!vars
  BY <1>8, <1>t DEF Graph!vars
<1> QED
  BY <1>1, <1>2, <1>3, <1>4, <1>5, <1>6, <1>7, <1>8 DEF Graph!Next

LEMMA GraphInvariant == ASSUME Graph!GraphAssumption
PROVE Graph!Spec => []GraphInv
<1>1. GraphInv /\ [Graph!Next]_(Graph!vars) => GraphInv'
  BY ClearedStep
<1> QED
  BY GraphInit, <1>1, PTL DEF Graph!Spec

\* Threads, their states and the flag keep their types.
LEMMA GraphTypes == ASSUME Graph!GraphAssumption
PROVE Graph!Spec => []Graph!TypeOK
<1>1. GraphInv => Graph!TypeOK
  BY DEF GraphInv
<1> QED
  BY GraphInvariant, <1>1, PTL

\* No tool that writes runs without the approval its call needs.
LEMMA GraphWrites == ASSUME Graph!GraphAssumption
PROVE Graph!Spec => []Graph!WritesAreCleared
<1>1. GraphInv => Graph!WritesAreCleared
  BY DEF GraphInv, CallIsCleared, Graph!WritesAreCleared,
         Graph!RequiresApproval, Graph!IsWrite, Graph!GraphAssumption,
         Graph!RiskClass
<1> QED
  BY GraphInvariant, <1>1, PTL

\* Once the platform is read-only no further write gets past the gate.
LEMMA GraphReadOnly == ASSUME Graph!GraphAssumption
PROVE Graph!Spec => []Graph!ReadOnlyHolds
<1>1. GraphInv => Graph!ReadOnlyHolds
  BY DEF GraphInv
<1> QED
  BY GraphInvariant, <1>1, PTL

-----------------------------------------------------------------------------
(* The semantic cache. *)

\* The collection changes only within the bound.
ChangesAreBounded == behind => generation < MaxGeneration

\* What is filed under a generation was computed in it or later.
FiledFresh == \A e \in entry : ~ e.late => e.answer >= e.generation

\* A request reads generations between its beginning and now; what it has
\* computed is as young as the generation it will be filed under.
AskerFresh(r) ==
    /\ r.step # "idle" => r.since <= generation
    /\ r.step \in {"scan", "store"} => r.generation >= r.since
    /\ r.step = "computed" /\ ~ r.late => r.answer >= generation
    /\ r.step = "store" /\ ~ r.late => r.answer >= r.generation
    /\ r.step = "served" /\ ~ r.late => r.answer >= r.since

AskersAreFresh == \A a \in Asker : AskerFresh(asker[a])

CacheTypeInv == Cache!TypeOK /\ ChangesAreBounded
CacheInv == CacheTypeInv /\ FiledFresh /\ AskersAreFresh

-----------------------------------------------------------------------------
LEMMA CacheInit == ASSUME Cache!CacheAssumption PROVE Cache!Init => CacheInv
<1> SUFFICES ASSUME Cache!Init PROVE CacheInv
  OBVIOUS
<1>1. CacheTypeInv
  <2>1. asker \in [Asker -> {Cache!Idle} \cup Cache!Asking]
    BY DEF Cache!Init
  <2>2. generation \in Cache!Version /\ behind = FALSE /\ entry = {}
    BY DEF Cache!CacheAssumption, Cache!Init, Cache!Version
  <2> QED
    BY <2>1, <2>2 DEF CacheTypeInv, Cache!TypeOK, ChangesAreBounded
<1>2. \A a \in Asker : asker[a].step = "idle"
  BY DEF Cache!Init, Cache!Idle
<1> QED
  BY <1>1, <1>2 DEF Cache!Init, CacheInv, FiledFresh, AskersAreFresh, AskerFresh

\* A request that is under way, whatever its step.
LEMMA AskingFields ==
    ASSUME Cache!TypeOK, NEW a \in Asker, asker[a].step # "idle"
    PROVE  /\ asker[a] \in Cache!Asking
           /\ asker[a].since \in Cache!Version /\ asker[a].late \in BOOLEAN
           /\ asker[a].answer \in Cache!Version /\ asker[a].generation \in Cache!Version
<1>1. asker[a] \in Cache!Asking
  BY DEF Cache!TypeOK, Cache!Idle
<1> QED
  BY <1>1 DEF Cache!Asking

\* A step of one request that leaves the rest alone need only be looked at
\* where it is.
LEMMA OneAsker ==
    ASSUME Cache!CacheAssumption, CacheInv, NEW a \in Asker,
           NEW r \in Cache!Asking \cup {Cache!Idle},
           asker' = [asker EXCEPT ![a] = r], UNCHANGED <<generation, behind,
           entry>>, AskerFresh(r)
    PROVE  CacheInv'
<1>1. CacheTypeInv'
  BY DEF CacheInv, CacheTypeInv, Cache!TypeOK, ChangesAreBounded
<1>2. FiledFresh'
  BY DEF CacheInv, FiledFresh
<1>3. AskersAreFresh'
  BY DEF CacheInv, AskersAreFresh, AskerFresh, CacheTypeInv, Cache!TypeOK
<1> QED
  BY <1>1, <1>2, <1>3 DEF CacheInv

\* The collection changes.
LEMMA ChangeStep ==
    ASSUME Cache!CacheAssumption, CacheInv, Cache!Change PROVE CacheInv'
<1>1. CacheTypeInv'
  BY DEF CacheInv, CacheTypeInv, Cache!TypeOK, ChangesAreBounded, Cache!Change
<1> QED
  BY <1>1 DEF CacheInv, Cache!Change, FiledFresh, AskersAreFresh, AskerFresh

\* The generation moves on: an answer that waits to be filed is late.
LEMMA InvalidateStep ==
    ASSUME Cache!CacheAssumption, CacheInv, Cache!InvalidateCollection
    PROVE CacheInv'
<1> USE DEF Cache!CacheAssumption, Cache!Version, Cache!InvalidateCollection
<1>0. Cache!TypeOK /\ generation < MaxGeneration /\ generation' = generation + 1
  BY DEF CacheInv, CacheTypeInv, ChangesAreBounded
<1>1. ASSUME NEW a \in Asker
      PROVE  /\ asker'[a] \in {Cache!Idle} \cup Cache!Asking
             /\ AskerFresh(asker[a]) => AskerFresh(asker[a])'
  <2>1. CASE asker[a].step = "computed"
    <3>1. asker'[a] = [asker[a] EXCEPT !.late = TRUE]
      BY <2>1
    <3>2. asker[a] \in Cache!Asking
      BY <1>0, <2>1, AskingFields
    <3>3. /\ asker'[a] \in Cache!Asking /\ asker'[a].late /\ asker'[a].step = "computed"
          /\ asker'[a].since = asker[a].since /\ asker[a].since \in 0..MaxGeneration
      BY <3>1, <3>2, <2>1 DEF Cache!Asking
    <3> QED
      BY <1>0, <2>1, <3>3 DEF AskerFresh, Cache!TypeOK
  <2>2. CASE asker[a].step # "computed"
    <3>1. asker'[a] = asker[a]
      BY <2>2
    <3>2. asker[a].step # "idle" => asker[a].since \in 0..MaxGeneration
      BY <1>0, AskingFields
    <3> QED
      BY <1>0, <2>2, <3>1, <3>2 DEF AskerFresh, Cache!TypeOK
  <2> QED
    BY <2>1, <2>2
<1>2. CacheTypeInv'
  <2>1. asker' \in [Asker -> {Cache!Idle} \cup Cache!Asking]
    BY <1>1
  <2>2. generation' \in Cache!Version /\ behind' = FALSE /\ entry' = entry
    BY <1>0 DEF Cache!TypeOK
  <2> QED
    BY <1>0, <2>1, <2>2 DEF CacheTypeInv, Cache!TypeOK, ChangesAreBounded
<1>3. AskersAreFresh'
  BY <1>1 DEF CacheInv, AskersAreFresh
<1> QED
  BY <1>2, <1>3 DEF CacheInv, FiledFresh

\* One call of lookup or store, or the computation between them.
LEMMA AskerStep ==
    ASSUME Cache!CacheAssumption, CacheInv, NEW a \in Asker,
           \/ \E q \in Question : Cache!Begin(a, q)
           \/ Cache!ReadGeneration(a, "lookup", "scan")
           \/ Cache!Hit(a) \/ Cache!Miss(a) \/ Cache!Compute(a)
           \/ Cache!ReadGeneration(a, "computed", "store")
           \/ Cache!Store(a) \/ Cache!Abandon(a)
    PROVE  CacheInv'
<1> USE DEF Cache!CacheAssumption, Cache!Version
<1>0. Cache!TypeOK /\ generation \in 0..MaxGeneration
  BY DEF CacheInv, CacheTypeInv, Cache!TypeOK
<1>a. AskerFresh(asker[a])
  BY DEF CacheInv, AskersAreFresh
<1>1. ASSUME NEW q \in Question, Cache!Begin(a, q) PROVE CacheInv'
  <2> DEFINE r == [step |-> "lookup", question |-> q, generation |-> 0,
                   answer |-> 0, since |-> generation, late |-> FALSE]
  <2>1. r \in Cache!Asking
    BY <1>0 DEF Cache!Asking
  <2>2. AskerFresh(r)
    BY <1>0 DEF AskerFresh
  <2> QED
    BY <1>1, <2>1, <2>2, OneAsker DEF Cache!Begin
<1>2. ASSUME NEW from \in {"lookup", "computed"}, NEW to \in {"scan", "store"},
             from = "lookup" => to = "scan", from = "computed" => to = "store",
             Cache!ReadGeneration(a, from, to)
      PROVE  CacheInv'
  <2> DEFINE r == [asker[a] EXCEPT !.step = to, !.generation = generation]
  <2>1. asker[a] \in Cache!Asking /\ asker[a].step = from
    BY <1>0, <1>2, AskingFields DEF Cache!ReadGeneration
  <2>2. /\ r \in Cache!Asking /\ r.step = to /\ r.generation = generation
        /\ r.since = asker[a].since /\ r.answer = asker[a].answer /\ r.late = asker[a].late
    BY <1>0, <2>1 DEF Cache!Asking
  <2>3. AskerFresh(r)
    BY <1>0, <1>a, <1>2, <2>1, <2>2 DEF AskerFresh, Cache!Asking
  <2>4. asker' = [asker EXCEPT ![a] = r] /\ UNCHANGED <<generation, behind, entry>>
    BY <1>0, <1>2 DEF Cache!ReadGeneration, Cache!TypeOK
  <2> HIDE DEF r
  <2> QED
    BY <2>2, <2>3, <2>4, OneAsker
<1>3. CASE Cache!Hit(a)
  <2>1. asker[a] \in Cache!Asking /\ asker[a].step = "scan"
    BY <1>0, <1>3, AskingFields DEF Cache!Hit
  <2>2. PICK e \in Cache!Matches(a) :
           asker' = [asker EXCEPT ![a].step = "served", ![a].answer = e.answer,
                                  ![a].late = e.late]
    BY <1>3 DEF Cache!Hit
  <2>3. e \in Cache!Entry /\ e \in entry /\ e.generation = asker[a].generation
    BY <1>0, <2>2 DEF Cache!Matches, Cache!TypeOK
  <2> DEFINE r == [asker[a] EXCEPT !.step = "served", !.answer = e.answer, !.late = e.late]
  <2>4. /\ r \in Cache!Asking /\ r.step = "served" /\ r.answer = e.answer
        /\ r.since = asker[a].since /\ r.late = e.late
    BY <2>1, <2>3 DEF Cache!Asking, Cache!Entry
  <2>5. ~ e.late => e.answer >= e.generation
    BY <2>3 DEF CacheInv, FiledFresh
  <2>6. /\ e.answer \in 0..MaxGeneration /\ asker[a].generation \in 0..MaxGeneration
        /\ asker[a].since \in 0..MaxGeneration
    BY <2>1, <2>3 DEF Cache!Asking, Cache!Entry
  <2>7. AskerFresh(r)
    BY <1>0, <1>a, <2>1, <2>3, <2>4, <2>5, <2>6 DEF AskerFresh
  <2>8. asker' = [asker EXCEPT ![a] = r] /\ UNCHANGED <<generation, behind, entry>>
    BY <1>0, <1>3, <2>2 DEF Cache!Hit, Cache!TypeOK
  <2> HIDE DEF r
  <2> QED
    BY <2>4, <2>7, <2>8, OneAsker
<1>4. CASE Cache!Miss(a)
  <2> DEFINE r == [asker[a] EXCEPT !.step = "compute"]
  <2>1. asker[a] \in Cache!Asking /\ asker[a].step = "scan"
    BY <1>0, <1>4, AskingFields DEF Cache!Miss
  <2>2. r \in Cache!Asking /\ r.step = "compute" /\ r.since = asker[a].since
    BY <2>1 DEF Cache!Asking
  <2>3. AskerFresh(r)
    BY <1>a, <2>1, <2>2 DEF AskerFresh
  <2>4. asker' = [asker EXCEPT ![a] = r] /\ UNCHANGED <<generation, behind, entry>>
    BY <1>0, <1>4 DEF Cache!Miss, Cache!TypeOK
  <2> HIDE DEF r
  <2> QED
    BY <2>2, <2>3, <2>4, OneAsker
<1>5. CASE Cache!Compute(a)
  <2> DEFINE r == [asker[a] EXCEPT !.step = "computed", !.answer = Cache!Content]
  <2>1. asker[a] \in Cache!Asking /\ asker[a].step = "compute"
    BY <1>0, <1>5, AskingFields DEF Cache!Compute
  <2>2. Cache!Content \in 0..MaxGeneration /\ Cache!Content >= generation
    BY <1>0 DEF Cache!Content, CacheInv, CacheTypeInv, ChangesAreBounded
  <2>3. /\ r \in Cache!Asking /\ r.step = "computed"
        /\ r.since = asker[a].since /\ r.answer = Cache!Content
    BY <2>1, <2>2 DEF Cache!Asking
  <2>4. AskerFresh(r)
    BY <1>a, <2>1, <2>2, <2>3 DEF AskerFresh
  <2>5. asker' = [asker EXCEPT ![a] = r] /\ UNCHANGED <<generation, behind, entry>>
    BY <1>0, <1>5 DEF Cache!Compute, Cache!TypeOK
  <2> HIDE DEF r
  <2> QED
    BY <2>3, <2>4, <2>5, OneAsker
<1>6. CASE Cache!Store(a)
  <2> DEFINE r == [asker[a] EXCEPT !.step = "served"]
             e == [question |-> asker[a].question, generation |-> asker[a].generation,
                   answer |-> asker[a].answer, late |-> asker[a].late]
  <2>1. asker[a] \in Cache!Asking /\ asker[a].step = "store"
    BY <1>0, <1>6, AskingFields DEF Cache!Store
  <2>2. /\ r \in Cache!Asking /\ r.step = "served" /\ r.since = asker[a].since
        /\ r.answer = asker[a].answer /\ r.late = asker[a].late
    BY <2>1 DEF Cache!Asking
  <2>3. /\ asker[a].answer \in 0..MaxGeneration /\ asker[a].generation \in 0..MaxGeneration
        /\ asker[a].since \in 0..MaxGeneration
    BY <2>1 DEF Cache!Asking
  <2>4. AskerFresh(r)
    BY <1>a, <2>1, <2>2, <2>3 DEF AskerFresh
  <2>5. e \in Cache!Entry /\ (~ e.late => e.answer >= e.generation)
    BY <1>a, <2>1 DEF AskerFresh, Cache!Asking, Cache!Entry
  <2>6. entry' = entry \cup {e} /\ asker' = [asker EXCEPT ![a] = r]
        /\ UNCHANGED <<generation, behind>>
    BY <1>0, <1>6 DEF Cache!Store, Cache!TypeOK
  <2>7. CacheTypeInv'
    BY <2>2, <2>5, <2>6
       DEF CacheInv, CacheTypeInv, Cache!TypeOK, ChangesAreBounded
  <2>8. FiledFresh'
    BY <2>5, <2>6 DEF CacheInv, FiledFresh
  <2>9. AskersAreFresh'
    BY <1>0, <2>4, <2>6 DEF CacheInv, AskersAreFresh, AskerFresh, Cache!TypeOK
  <2> QED
    BY <2>7, <2>8, <2>9 DEF CacheInv
<1>7. CASE Cache!Abandon(a)
  <2>1. AskerFresh(Cache!Idle)
    BY DEF AskerFresh, Cache!Idle
  <2> QED
    BY <1>7, <2>1, OneAsker DEF Cache!Abandon
<1> QED
  BY <1>1, <1>2, <1>3, <1>4, <1>5, <1>6, <1>7

\* An entry that expires leaves the others as fresh as they were.
LEMMA CacheStep ==
    ASSUME Cache!CacheAssumption, CacheInv, [Cache!Next]_(Cache!vars)
    PROVE CacheInv'
<1>1. ASSUME NEW e \in entry, Cache!Expire(e) PROVE CacheInv'
  BY <1>1
     DEF Cache!Expire, CacheInv, CacheTypeInv, Cache!TypeOK, ChangesAreBounded,
         FiledFresh, AskersAreFresh, AskerFresh
<1>2. CASE UNCHANGED Cache!vars
  BY <1>2
     DEF Cache!vars, CacheInv, CacheTypeInv, Cache!TypeOK, ChangesAreBounded,
         FiledFresh, AskersAreFresh, AskerFresh
<1> QED
  BY <1>1, <1>2, ChangeStep, InvalidateStep, AskerStep DEF Cache!Next

LEMMA CacheInvariant == ASSUME Cache!CacheAssumption
PROVE Cache!Spec => []CacheInv
<1>1. CacheInv /\ [Cache!Next]_(Cache!vars) => CacheInv'
  BY CacheStep
<1> QED
  BY CacheInit, <1>1, PTL DEF Cache!Spec

\* Generations, entries and requests keep their types.
LEMMA CacheTypes == ASSUME Cache!CacheAssumption
PROVE Cache!Spec => []Cache!TypeOK
<1>1. CacheInv => Cache!TypeOK
  BY DEF CacheInv, CacheTypeInv
<1> QED
  BY CacheInvariant, <1>1, PTL

\* Nobody is served an answer older than the last invalidation before the
\* question, except one that was on its way to the cache when it came.
LEMMA CacheFresh == ASSUME Cache!CacheAssumption
PROVE Cache!Spec => []Cache!ServedIsFresh
<1>1. CacheInv => Cache!ServedIsFresh
  BY DEF CacheInv, AskersAreFresh, AskerFresh, Cache!ServedIsFresh
<1> QED
  BY CacheInvariant, <1>1, PTL

-----------------------------------------------------------------------------
(* Roles and API keys. *)

Rowless == \A x \in Rights!Known : rows[x] = 0

RowsAreSound ==
    /\ Rights!RemovedStaysRemoved
    /\ Rowless => Rights!KeptAway = {}
    /\ ~ user => Rowless /\ \A a \in Admin : adding[a] = {}

\* One request: it found a person who exists, it seeds nothing that was taken
\* away, and it was not let through on something that was.
RequestIsSound(q) ==
    /\ q.step = "arrived" => (q.found => user)
    /\ q.step = "checked" => user /\ q.seeds \cap Rights!KeptAway = {}
    /\ q.step = "decided" /\ q.route # "token" => q.granted \subseteq q.due

RequestsAreSound == \A r \in Request : RequestIsSound(req[r])

AccessInv == Rights!TypeOK /\ RowsAreSound /\ RequestsAreSound

-----------------------------------------------------------------------------
LEMMA AccessInit == ASSUME Rights!AccessAssumption
PROVE Rights!Init => AccessInv
<1> SUFFICES ASSUME Rights!Init PROVE AccessInv
  OBVIOUS
<1>1. Rights!TypeOK
  <2>1. req \in [Request -> {Rights!Free} \cup Rights!Pending \cup Rights!Decided]
    BY DEF Rights!Init
  <2>2. rows \in [Rights!Known -> 0..MaxRows]
    BY DEF Rights!Init, Rights!AccessAssumption
  <2> QED
    BY <2>1, <2>2 DEF Rights!Init, Rights!TypeOK
<1>2. \A r \in Request : req[r].step = "free"
  BY DEF Rights!Init, Rights!Free
<1> QED
  BY <1>1, <1>2
     DEF Rights!Init, AccessInv, RowsAreSound, Rights!RemovedStaysRemoved,
         Rights!KeptAway, Rowless, RequestsAreSound, RequestIsSound

\* More roles, more permissions; and never one that does not exist.
LEMMA PermissionsGrow ==
    ASSUME NEW S, NEW T, S \subseteq T
    PROVE  Rights!PermissionsFor(S) \subseteq Rights!PermissionsFor(T)
BY DEF Rights!PermissionsFor

LEMMA PermissionsExist ==
    ASSUME NEW S PROVE Rights!PermissionsFor(S) \subseteq Rights!Permission
<1>1. \A x \in DOMAIN Rights!RolePermissions :
          Rights!RolePermissions[x] \subseteq Rights!Permission
  BY DEF Rights!RolePermissions, Rights!Permission
<1> QED
  BY <1>1 DEF Rights!PermissionsFor

\* A request between its arrival and its decision.
LEMMA PendingFields ==
    ASSUME Rights!TypeOK, NEW r \in Request,
           req[r].step \in {"arrived", "checked", "committed"}
    PROVE  /\ req[r] \in Rights!Pending
           /\ req[r].seeds \subseteq TokenRoles /\ req[r].gone \subseteq Rights!Known
<1>1. req[r] \in Rights!Pending
  BY DEF Rights!TypeOK, Rights!Free, Rights!Decided
<1> QED
  BY <1>1 DEF Rights!Pending

\* A step that touches one request only.
LEMMA OneRequest ==
    ASSUME AccessInv, NEW r \in Request,
           NEW q \in {Rights!Free} \cup Rights!Pending \cup Rights!Decided,
           req' = [req EXCEPT ![r] = q], RequestIsSound(q),
           UNCHANGED <<user, rows, key, adding, struck, exposed>>
    PROVE  AccessInv'
<1>1. Rights!TypeOK'
  BY DEF AccessInv, Rights!TypeOK
<1>2. RowsAreSound'
  BY DEF AccessInv, RowsAreSound, Rights!RemovedStaysRemoved, Rowless, Rights!KeptAway
<1>3. RequestsAreSound'
  BY DEF AccessInv, RequestsAreSound, RequestIsSound, Rights!TypeOK, Rights!KeptAway
<1> QED
  BY <1>1, <1>2, <1>3 DEF AccessInv

LEMMA FreeIsSound ==
    /\ Rights!Free \in {Rights!Free} \cup Rights!Pending \cup Rights!Decided
    /\ RequestIsSound(Rights!Free)
BY DEF Rights!Free, RequestIsSound

\* Rows that are inserted: none of them was taken away, or it is no longer.
LEMMA MoreRows ==
    ASSUME Rights!AccessAssumption, AccessInv, NEW set \in SUBSET Rights!Known,
           Rights!Room(set), rows' = Rights!More(set),
           Rights!KeptAway' \subseteq Rights!KeptAway, Rights!KeptAway' \cap set = {}
    PROVE  /\ rows' \in [Rights!Known -> 0..MaxRows]
           /\ Rights!RemovedStaysRemoved' /\ (Rowless' => Rights!KeptAway' = {})
<1>0. Rights!TypeOK /\ RowsAreSound
  BY DEF AccessInv
<1>1. \A x \in Rights!Known : /\ x \in set => rows'[x] = rows[x] + 1 /\ rows[x] < MaxRows
                              /\ x \notin set => rows'[x] = rows[x]
                              /\ rows[x] \in 0..MaxRows
  BY <1>0 DEF Rights!More, Rights!Room, Rights!TypeOK
<1>2. rows' \in [Rights!Known -> 0..MaxRows]
  <2>1. \A x \in Rights!Known : rows'[x] \in 0..MaxRows
    BY <1>1 DEF Rights!AccessAssumption
  <2> QED
    BY <2>1 DEF Rights!More
<1>3. Rights!RemovedStaysRemoved'
  <2>1. Rights!KeptAway \subseteq Rights!Known
    BY <1>0 DEF Rights!KeptAway, Rights!TypeOK
  <2> QED
    BY <1>0, <1>1, <2>1 DEF RowsAreSound, Rights!RemovedStaysRemoved
<1>4. Rowless' => Rowless
  BY <1>1 DEF Rowless, Rights!AccessAssumption
<1> QED
  BY <1>0, <1>2, <1>3, <1>4 DEF RowsAreSound, Rights!TypeOK

-----------------------------------------------------------------------------
(* A request, one lemma for each kind of step. *)

LEMMA ArriveStep ==
    ASSUME AccessInv, NEW r \in Request, Rights!Arrive(r) PROVE AccessInv'
<1> DEFINE q == [step |-> "arrived", found |-> user, seeds |-> {}, gone |-> struck]
<1>1. q \in Rights!Pending
  BY DEF Rights!Pending, AccessInv, Rights!TypeOK, Rights!Known
<1>2. RequestIsSound(q)
  BY DEF RequestIsSound
<1>3. req' = [req EXCEPT ![r] = q] /\ UNCHANGED <<user, rows, key, adding, struck, exposed>>
  BY DEF Rights!Arrive
<1> HIDE DEF q
<1> QED
  BY <1>1, <1>2, <1>3, OneRequest

\* The first login finds no row of the person, so it seeds into nothing; a
\* second one ends when the person exists by then.
LEMMA FirstLoginStep ==
    ASSUME Rights!AccessAssumption, AccessInv, NEW r \in Request,
           Rights!FirstLogin(r)
    PROVE  AccessInv'
<1>0. Rights!TypeOK /\ RowsAreSound /\ RequestsAreSound
  BY DEF AccessInv
<1>1. CASE user
  BY <1>1, OneRequest, FreeIsSound DEF Rights!FirstLogin
<1>2. CASE ~ user
  <2> DEFINE q == [req[r] EXCEPT !.step = "committed"]
  <2>1. q \in Rights!Pending /\ q.step = "committed"
    BY <1>0, PendingFields DEF Rights!FirstLogin, Rights!Pending
  <2>2. /\ req' = [req EXCEPT ![r] = q] /\ user' = TRUE /\ rows' = Rights!More(TokenRoles)
        /\ UNCHANGED <<key, adding, struck, exposed>>
    BY <1>0, <1>2 DEF Rights!FirstLogin, Rights!TypeOK
  <2> HIDE DEF q
  <2>3. Rights!KeptAway = {} /\ Rights!KeptAway' = {} /\ Rowless
    BY <1>0, <1>2, <2>2 DEF RowsAreSound, Rights!KeptAway
  <2>4. Rights!Room(TokenRoles) /\ TokenRoles \subseteq Rights!Known
    BY <2>3 DEF Rights!Room, Rowless, Rights!Known, Rights!AccessAssumption
  <2>5. rows' \in [Rights!Known -> 0..MaxRows] /\ Rights!RemovedStaysRemoved'
    BY <2>2, <2>3, <2>4, MoreRows
  <2>6. Rights!TypeOK'
    BY <1>0, <2>1, <2>2, <2>5 DEF Rights!TypeOK
  <2>7. RequestsAreSound'
    BY <1>0, <2>1, <2>2, <2>3, <2>5
       DEF Rights!TypeOK, RequestsAreSound, RequestIsSound
  <2> QED
    BY <2>2, <2>3, <2>5, <2>6, <2>7 DEF AccessInv, RowsAreSound
<1> QED
  BY <1>1, <1>2

\* Roles are seeded only when the person has none, and then none is struck.
LEMMA SeedStep ==
    ASSUME Rights!AccessAssumption, AccessInv, NEW r \in Request,
           Rights!SeedRolesFromJwt(r)
    PROVE  AccessInv'
<1> DEFINE q == [req[r] EXCEPT !.step = "checked", !.seeds = Rights!ToSeed]
<1>0. Rights!TypeOK /\ RowsAreSound /\ RequestIsSound(req[r])
  BY DEF AccessInv, RequestsAreSound
<1>1. q \in Rights!Pending /\ q.step = "checked" /\ q.seeds = Rights!ToSeed
  BY <1>0, PendingFields
     DEF Rights!SeedRolesFromJwt, Rights!Pending, Rights!ToSeed
<1>2. Rights!ToSeed \cap Rights!KeptAway = {}
  <2>1. ASSUME Rights!Held = {} PROVE Rowless
    BY <1>0, <2>1
       DEF Rights!Held, Rowless, Rights!TypeOK, Rights!AccessAssumption
  <2> QED
    BY <1>0, <2>1 DEF Rights!ToSeed, RowsAreSound
<1>3. RequestIsSound(q)
  BY <1>0, <1>1, <1>2 DEF RequestIsSound, Rights!SeedRolesFromJwt
<1>4. req' = [req EXCEPT ![r] = q] /\ UNCHANGED <<user, rows, key, adding, struck, exposed>>
  BY <1>0 DEF Rights!SeedRolesFromJwt, Rights!TypeOK
<1> HIDE DEF q
<1> QED
  BY <1>1, <1>3, <1>4, OneRequest

LEMMA CommitStep ==
    ASSUME Rights!AccessAssumption, AccessInv, NEW r \in Request,
           Rights!Commit(r)
    PROVE  AccessInv'
<1> DEFINE q == [req[r] EXCEPT !.step = "committed"]
<1>0. Rights!TypeOK /\ RowsAreSound /\ RequestsAreSound
  BY DEF AccessInv
<1>1. /\ q \in Rights!Pending /\ q.step = "committed" /\ req[r].seeds \in SUBSET Rights!Known
      /\ req[r].seeds \cap Rights!KeptAway = {} /\ user
  BY <1>0, PendingFields
     DEF Rights!Commit, Rights!Pending, RequestsAreSound, RequestIsSound,
         Rights!Known
<1>2. /\ req' = [req EXCEPT ![r] = q] /\ rows' = Rights!More(req[r].seeds)
      /\ UNCHANGED <<user, key, adding, struck, exposed>> /\ Rights!Room(req[r].seeds)
  BY <1>0 DEF Rights!Commit, Rights!TypeOK
<1> HIDE DEF q
<1>k. Rights!KeptAway' = Rights!KeptAway
  BY <1>2 DEF Rights!KeptAway
<1>3. /\ rows' \in [Rights!Known -> 0..MaxRows] /\ Rights!RemovedStaysRemoved'
      /\ (Rowless' => Rights!KeptAway' = {})
  BY <1>1, <1>2, <1>k, MoreRows
<1>4. Rights!TypeOK'
  BY <1>0, <1>1, <1>2, <1>3 DEF Rights!TypeOK
<1>5. RequestsAreSound'
  BY <1>0, <1>1, <1>2, <1>k DEF Rights!TypeOK, RequestsAreSound, RequestIsSound
<1> QED
  BY <1>1, <1>2, <1>3, <1>4, <1>5 DEF AccessInv, RowsAreSound

\* What no role that is kept away grants is granted by the others.
LEMMA LoadRolesStep ==
    ASSUME Rights!AccessAssumption, AccessInv, NEW r \in Request,
           Rights!LoadRoles(r)
    PROVE  AccessInv'
<1> DEFINE q == Rights!Decision("roles", Rights!PermissionsFor(Rights!Held),
                                Rights!Due(req[r].gone))
<1>0. Rights!TypeOK /\ RowsAreSound
  BY DEF AccessInv
<1>1. Rights!Held \subseteq Rights!Known \ (req[r].gone \cap Rights!KeptAway)
  BY <1>0 DEF Rights!Held, RowsAreSound, Rights!RemovedStaysRemoved
<1>2. Rights!PermissionsFor(Rights!Held) \subseteq Rights!Due(req[r].gone)
  BY <1>1, PermissionsGrow DEF Rights!Due
<1>3. /\ Rights!PermissionsFor(Rights!Held) \subseteq Rights!Permission
      /\ Rights!Due(req[r].gone) \subseteq Rights!Permission
  BY PermissionsExist DEF Rights!Due
<1>4. q \in Rights!Decided
  BY <1>3 DEF Rights!Decision, Rights!Decided, Rights!Route
<1>5. RequestIsSound(q)
  BY <1>2 DEF Rights!Decision, RequestIsSound
<1>6. req' = [req EXCEPT ![r] = q] /\ UNCHANGED <<user, rows, key, adding, struck, exposed>>
  BY DEF Rights!LoadRoles
<1> HIDE DEF q
<1> QED
  BY <1>4, <1>5, <1>6, OneRequest

LEMMA AbortStep ==
    ASSUME AccessInv, NEW r \in Request, Rights!Abort(r) PROVE AccessInv'
BY OneRequest, FreeIsSound DEF Rights!Abort

LEMMA DecideOnTokenStep ==
    ASSUME AccessInv, NEW r \in Request, Rights!DecideOnToken(r)
    PROVE AccessInv'
<1> DEFINE q == Rights!Decision("token", Rights!PermissionsFor(TokenRoles), Rights!Due(struck))
<1>1. q \in Rights!Decided
  <2>1. /\ Rights!PermissionsFor(TokenRoles) \subseteq Rights!Permission
        /\ Rights!Due(struck) \subseteq Rights!Permission
    BY PermissionsExist DEF Rights!Due
  <2> QED
    BY <2>1 DEF Rights!Decision, Rights!Decided, Rights!Route
<1>2. RequestIsSound(q)
  BY DEF Rights!Decision, RequestIsSound
<1>3. req' = [req EXCEPT ![r] = q] /\ UNCHANGED <<user, rows, key, adding, struck, exposed>>
  BY DEF Rights!DecideOnToken
<1> HIDE DEF q
<1> QED
  BY <1>1, <1>2, <1>3, OneRequest

\* Only a live key passes validate_record.
LEMMA DecideOnKeyStep ==
    ASSUME AccessInv, NEW r \in Request, Rights!DecideOnKey(r) PROVE AccessInv'
<1> DEFINE opens == [usable \in BOOLEAN |-> IF usable THEN {"approve"} ELSE {}]
           q == Rights!Decision("key", opens[Rights!Usable(key)], opens[key = "live"])
<1>1. Rights!Usable(key) <=> key = "live"
  BY DEF AccessInv, Rights!TypeOK, Rights!Usable
<1>2. Rights!Usable(key) = (key = "live") /\ (key = "live") \in BOOLEAN
  BY <1>1 DEF Rights!Usable
<1>3. /\ opens[Rights!Usable(key)] = opens[key = "live"]
      /\ opens[key = "live"] \subseteq Rights!Permission
  BY <1>2 DEF Rights!Permission
<1> HIDE DEF opens
<1>4. q \in Rights!Decided
  BY <1>3 DEF Rights!Decision, Rights!Decided, Rights!Route
<1>5. RequestIsSound(q)
  BY <1>3 DEF Rights!Decision, RequestIsSound
<1>6. req' = [req EXCEPT ![r] = q] /\ UNCHANGED <<user, rows, key, adding, struck, exposed>>
  BY DEF Rights!DecideOnKey, opens
<1> HIDE DEF q
<1> QED
  BY <1>4, <1>5, <1>6, OneRequest

-----------------------------------------------------------------------------
(* Administrators.  Requests that are decided stay decided; one that is about
   to seed exposes the role that is taken away (Coming). *)

LEMMA AddRoleStep ==
    ASSUME AccessInv, NEW a \in Admin, NEW x \in Role, Rights!AddRole(a, x)
    PROVE  AccessInv'
<1>1. Rights!TypeOK'
  BY DEF AccessInv, Rights!TypeOK, Rights!AddRole
<1>2. RowsAreSound'
  BY DEF AccessInv, RowsAreSound, Rights!RemovedStaysRemoved, Rowless,
         Rights!KeptAway, Rights!AddRole
<1>3. RequestsAreSound'
  BY DEF AccessInv, RequestsAreSound, RequestIsSound, Rights!KeptAway, Rights!AddRole
<1> QED
  BY <1>1, <1>2, <1>3 DEF AccessInv

LEMMA InsertRoleStep ==
    ASSUME Rights!AccessAssumption, AccessInv, NEW a \in Admin,
           Rights!InsertRole(a)
    PROVE  AccessInv'
<1>0. Rights!TypeOK /\ RowsAreSound /\ RequestsAreSound
  BY DEF AccessInv
<1>1. adding[a] \in SUBSET Rights!Known /\ user /\ Rights!Room(adding[a])
  BY <1>0 DEF Rights!InsertRole, Rights!TypeOK, Rights!Known, RowsAreSound
<1>2. rows' = Rights!More(adding[a]) /\ Rights!KeptAway' = Rights!KeptAway \ adding[a]
  BY DEF Rights!InsertRole, Rights!KeptAway
<1>3. /\ rows' \in [Rights!Known -> 0..MaxRows]
      /\ Rights!RemovedStaysRemoved' /\ (Rowless' => Rights!KeptAway' = {})
  BY <1>1, <1>2, MoreRows
<1>4. Rights!TypeOK'
  BY <1>0, <1>3 DEF Rights!InsertRole, Rights!TypeOK
<1>5. RequestsAreSound'
  BY <1>0, <1>2 DEF Rights!InsertRole, RequestsAreSound, RequestIsSound
<1> QED
  BY <1>1, <1>3, <1>4, <1>5 DEF Rights!InsertRole, AccessInv, RowsAreSound

LEMMA RemoveRoleStep ==
    ASSUME Rights!AccessAssumption, AccessInv, NEW x \in Rights!Known,
           Rights!RemoveRole(x)
    PROVE  AccessInv'
<1>0. Rights!TypeOK /\ RowsAreSound /\ RequestsAreSound
  BY DEF AccessInv
<1>1. /\ rows' = [rows EXCEPT ![x] = @ - 1] /\ rows[x] \in 1..MaxRows
      /\ UNCHANGED <<user, key, req, adding>>
  BY <1>0 DEF Rights!RemoveRole, Rights!TypeOK, Rights!AccessAssumption
<1>2. rows' \in [Rights!Known -> 0..MaxRows]
  <2>1. rows[x] - 1 \in 0..MaxRows
    BY <1>1 DEF Rights!AccessAssumption
  <2> QED
    BY <1>0, <1>1, <2>1 DEF Rights!TypeOK
<1>3. \A y \in Rights!Known : rows[y] = 0 => rows'[y] = 0
  BY <1>0, <1>1 DEF Rights!TypeOK
<1>k. x \notin Rights!KeptAway
  BY <1>0, <1>1 DEF RowsAreSound, Rights!RemovedStaysRemoved
<1>4. /\ Rights!KeptAway' \subseteq Rights!KeptAway \cup {x}
      /\ x \in Rights!KeptAway' => rows'[x] = 0 /\ ~ Rights!Coming(x)
      /\ Rowless' => Rights!KeptAway' = {}
  <2>1. CASE Rowless'
    BY <2>1 DEF Rights!RemoveRole, Rowless, Rights!KeptAway
  <2>2. CASE ~ Rowless' /\ rows'[x] = 0
    BY <1>k, <2>2 DEF Rights!RemoveRole, Rowless, Rights!KeptAway
  <2>3. CASE rows'[x] # 0
    <3>1. rows'[x] > 0
      BY <1>2, <2>3 DEF Rights!AccessAssumption
    <3>2. ~ Rowless'
      BY <2>3 DEF Rowless
    <3>3. struck' = struck /\ exposed' = exposed
      BY <2>3, <3>1 DEF Rights!RemoveRole
    <3> QED
      BY <1>k, <3>2, <3>3 DEF Rights!KeptAway
  <2> QED
    BY <2>1, <2>2, <2>3
<1>5. Rights!TypeOK'
  <2>1. struck' \subseteq Rights!Known /\ exposed' \subseteq struck'
    BY <1>0 DEF Rights!RemoveRole, Rights!TypeOK
  <2> QED
    BY <1>0, <1>1, <1>2, <2>1 DEF Rights!TypeOK
<1>6. Rights!RemovedStaysRemoved'
  <2>1. Rights!KeptAway \subseteq Rights!Known
    BY <1>0 DEF Rights!KeptAway, Rights!TypeOK
  <2> QED
    BY <1>0, <1>3, <1>4, <2>1 DEF RowsAreSound, Rights!RemovedStaysRemoved
<1>7. ~ user => (Rowless /\ \A a \in Admin : adding[a] = {})'
  BY <1>0, <1>1, <1>3 DEF RowsAreSound, Rowless
<1>8. RequestsAreSound'
  BY <1>0, <1>1, <1>4 DEF RequestsAreSound, RequestIsSound, Rights!Coming
<1> QED
  BY <1>1, <1>4, <1>5, <1>6, <1>7, <1>8 DEF AccessInv, RowsAreSound

\* What happens to the key leaves what was decided as it was.
LEMMA KeyStep ==
    ASSUME AccessInv,
           Rights!IssueApiKey \/ Rights!RevokeApiKey \/ Rights!ExpireApiKey,
           UNCHANGED <<user, rows, req, adding, struck, exposed>>
    PROVE  AccessInv'
<1>1. Rights!TypeOK'
  BY DEF AccessInv, Rights!TypeOK, Rights!IssueApiKey, Rights!RevokeApiKey,
         Rights!ExpireApiKey
<1> QED
  BY <1>1 DEF AccessInv, RowsAreSound, Rights!RemovedStaysRemoved, Rowless,
     Rights!KeptAway, RequestsAreSound, RequestIsSound

LEMMA AccessStep ==
    ASSUME Rights!AccessAssumption, AccessInv, [Rights!Next]_(Rights!vars)
    PROVE AccessInv'
<1>1. CASE UNCHANGED Rights!vars
  BY <1>1
     DEF Rights!vars, AccessInv, Rights!TypeOK, RowsAreSound,
         Rights!KeptAway, Rights!RemovedStaysRemoved, Rowless, RequestsAreSound,
         RequestIsSound
<1> QED
  BY <1>1, ArriveStep, FirstLoginStep, SeedStep, CommitStep, LoadRolesStep,
     AbortStep, DecideOnTokenStep, DecideOnKeyStep, AddRoleStep, InsertRoleStep,
     RemoveRoleStep, KeyStep DEF Rights!Next

LEMMA AccessInvariant == ASSUME Rights!AccessAssumption
PROVE Rights!Spec => []AccessInv
<1>1. AccessInv /\ [Rights!Next]_(Rights!vars) => AccessInv'
  BY AccessStep
<1> QED
  BY AccessInit, <1>1, PTL DEF Rights!Spec

\* Rows, requests and the key keep their types.
LEMMA AccessTypes == ASSUME Rights!AccessAssumption
PROVE Rights!Spec => []Rights!TypeOK
<1>1. AccessInv => Rights!TypeOK
  BY DEF AccessInv
<1> QED
  BY AccessInvariant, <1>1, PTL

\* A role taken away is gone until an administrator gives it back, unless the
\* person was left without any, or a login was at work that had found none.
LEMMA AccessRemoval == ASSUME Rights!AccessAssumption
PROVE Rights!Spec => []Rights!RemovedStaysRemoved
<1>1. AccessInv => Rights!RemovedStaysRemoved
  BY DEF AccessInv, RowsAreSound
<1> QED
  BY AccessInvariant, <1>1, PTL

\* No request is let through on a role that had been taken away when it
\* arrived, with the same two exceptions, or on a key that was revoked or had expired.
LEMMA AccessEdits == ASSUME Rights!AccessAssumption
PROVE Rights!Spec => []Rights!EditsReachRequests
<1>1. AccessInv => Rights!EditsReachRequests
  <2> SUFFICES ASSUME AccessInv, NEW r \in Request, req[r].step = "decided",
                      req[r].route # "token"
               PROVE  req[r].granted \subseteq req[r].due
    BY DEF Rights!EditsReachRequests
  <2> QED
    BY DEF AccessInv, RequestsAreSound, RequestIsSound
<1> QED
  BY AccessInvariant, <1>1, PTL
=============================================================================
