------------------------------ MODULE Recipes ------------------------------
(***************************************************************************)
(* An automation recipe: its row in Postgres and the workflow compiled     *)
(* from it in n8n.                                                         *)
(*                                                                         *)
(* A handler reads the row, calls n8n and then commits; the three share no *)
(* transaction and nothing is locked while n8n is called, so the handlers  *)
(* of one recipe overlap.  n8n may refuse a call, and a call may go        *)
(* unanswered for the client's five seconds and take effect later, or      *)
(* never.                                                                  *)
(*                                                                         *)
(* Recipes of different names share nothing; the rows here are those that  *)
(* one name has had, one after the other.                                  *)
(***************************************************************************)
EXTENDS Naturals, FiniteSets

CONSTANTS
    Request,        \* the requests that change the recipe, each made once
    Row,            \* the ids its rows may get
    Workflow,       \* the ids n8n may hand out
    Definition,     \* what a builder can post
    NoWorkflow,
    NoDefinition

ASSUME NoneAssumption ==
    /\ Row # {}
    /\ NoWorkflow \notin Workflow
    /\ NoDefinition \notin Definition

Operation == {"create", "update", "delete", "activate", "deactivate"}

VARIABLES
    row,        \* row[r]: the row as committed
    flow,       \* flow[w]: the workflow in n8n
    late,       \* the requests whose call went unanswered and may yet take effect
    pc,         \* pc[q]: the step the handler of q takes next
    task,       \* task[q]: what it was asked, what it read, what it will write, and
                \* .fine, that its answer will hold nothing against n8n
    alone,      \* history: alone[q], nothing else has happened while q ran
    lastWord,   \* history: what the last request, if it was alone, answered
    causes,     \* history: all that has gone wrong so far
    kept        \* history: the workflows n8n has refused to delete

vars == <<row, flow, late, pc, task, alone, lastWord, causes, kept>>

Column == [state : {"none", "live", "gone"}, def : Definition \cup {NoDefinition},
           wid : Workflow \cup {NoWorkflow}, active : BOOLEAN]

\* A recipe starts inactive and not deployed.
Fresh(d) == [state |-> "live", def |-> d, wid |-> NoWorkflow, active |-> FALSE]
Blank == [Fresh(NoDefinition) EXCEPT !.state = "none"]

\* Mutant of Created: the payload says that the workflow is active.
CreatedRunning(d) == [state |-> "there", def |-> d, active |-> TRUE]

\* n8n creates a workflow inactive, and activation is a call of its own.
Created(d) == [state |-> "there", def |-> d, active |-> FALSE]

Absent == [Created(NoDefinition) EXCEPT !.state = "none"]

Silence == [row |-> CHOOSE r \in Row : TRUE, said |-> "nothing"]

Init ==
    /\ row = [r \in Row |-> Blank]
    /\ flow = [w \in Workflow |-> Absent]
    /\ late = {}
    /\ pc = [q \in Request |-> "new"]
    /\ task = [q \in Request |->
                  [op |-> "create", row |-> Silence.row, def |-> NoDefinition,
                   loaded |-> Blank, copy |-> Blank, fine |-> FALSE]]
    /\ alone = [q \in Request |-> TRUE]
    /\ lastWord = Silence
    /\ causes = {}
    /\ kept = {}

InProgress == {q \in Request : pc[q] \notin {"new", "done"}}
Live(r) == row[r].state = "live"
There(w) == w \in Workflow /\ flow[w].state = "there"

(***************************************************************************)
(* How a handler ends.  Only the answer to a request that nothing else     *)
(* overlapped says anything about the state it leaves behind.              *)
(***************************************************************************)
Finish(q, said) ==
    /\ pc' = [pc EXCEPT ![q] = "done"]
    /\ lastWord' = IF alone[q] /\ said # "nothing"
                   THEN [row |-> task[q].row, said |-> said] ELSE Silence

Goto(q, step) == pc' = [pc EXCEPT ![q] = step] /\ lastWord' = Silence

(***************************************************************************)
(* A request arrives: its name or its row, and its recipe, are the         *)
(* caller's.                                                               *)
(***************************************************************************)
Begin(q, o, r, d) ==
    /\ pc[q] = "new"
    /\ o \in {"create", "update"} \/ d = NoDefinition
    /\ o \in {"create", "update"} => d # NoDefinition
    /\ Goto(q, IF o = "create" THEN "check" ELSE "load")
    /\ task' = [task EXCEPT ![q].op = o, ![q].row = r, ![q].def = d]
    /\ alone' = [p \in Request |->
                    alone[p] /\ p \notin InProgress /\ (p = q => InProgress = {})]
    /\ causes' = IF InProgress = {} THEN causes ELSE causes \cup {"overlap"}
    /\ UNCHANGED <<row, flow, late, kept>>

(***************************************************************************)
(* create_recipe: the name is looked up and refused with a 409 if taken,   *)
(* and the row inserted in a transaction that stays open over the call to  *)
(* n8n.  The unique index makes a second insert wait for that transaction, *)
(* and fail if it has committed.                                           *)
(***************************************************************************)
CheckName(q) ==
    /\ pc[q] = "check"
    /\ IF \E r \in Row : Live(r) THEN Finish(q, "nothing") ELSE Goto(q, "insert")
    /\ UNCHANGED <<row, flow, late, task, alone, causes, kept>>

Inserted == {q \in InProgress : task[q].op = "create" /\ pc[q] \in {"post", "save"}}

Insert(q) ==
    /\ pc[q] = "insert"
    /\ Inserted = {}
    /\ \/ /\ \E r \in Row : Live(r)
          /\ Finish(q, "nothing")
          /\ UNCHANGED task
       \/ /\ \A r \in Row : ~Live(r)
          /\ \E r \in Row :
                /\ row[r] = Blank
                /\ task' = [task EXCEPT ![q].row = r, ![q].copy = Fresh(task[q].def)]
          /\ Goto(q, "post")
    /\ UNCHANGED <<row, flow, late, alone, causes, kept>>

(***************************************************************************)
(* The other handlers load the row, and answer 404 if it is not there.     *)
(***************************************************************************)
Load(q) ==
    LET t == task[q]
        wid == row[t.row].wid
    IN  /\ pc[q] = "load"
        /\ IF ~Live(t.row)
           THEN Finish(q, "nothing") /\ UNCHANGED task
           ELSE /\ task' = [task EXCEPT
                       ![q].loaded = row[t.row],
                       ![q].copy = IF t.op = "update" THEN [row[t.row] EXCEPT !.def = t.def]
                                   ELSE row[t.row]]
                /\ CASE t.op = "update" ->
                          Goto(q, IF wid = NoWorkflow THEN "post" ELSE "put")
                     [] t.op = "delete" ->
                          Goto(q, IF wid = NoWorkflow THEN "drop" ELSE "remove")
                     [] OTHER ->
                          IF wid = NoWorkflow THEN Finish(q, "nothing")
                          ELSE Goto(q, "switch")
        /\ UNCHANGED <<row, flow, late, alone, causes, kept>>

(***************************************************************************)
(* What a call does to n8n once it is obeyed.                              *)
(***************************************************************************)
Obeyed(q, w) ==
    LET t == task[q]
    IN  CASE t.op \in {"create", "update"} /\ t.copy.wid = NoWorkflow ->
               [flow EXCEPT ![w] = Created(t.copy.def)]
          [] t.op = "update" /\ t.copy.wid # NoWorkflow ->
               [flow EXCEPT ![w].def = t.copy.def]
          [] t.op = "delete" -> [flow EXCEPT ![w].state = "gone"]
          [] OTHER -> [flow EXCEPT ![w].active = (t.op = "activate")]

\* The workflow a call is about: a new id for a POST of the payload.
Subject(q) ==
    IF task[q].op \in {"create", "update"} /\ task[q].copy.wid = NoWorkflow
    THEN {w \in Workflow : flow[w] = Absent}
    ELSE {w \in {task[q].copy.wid} : There(w)}

\* A refusal (401, 403, 5xx) changes nothing; a lost answer leaves it open
\* whether, and when, the call takes effect.
Refused == causes' = causes \cup {"refused"} /\ UNCHANGED <<flow, late>>
Unanswered(q) ==
    /\ causes' = causes \cup {"unanswered"}
    /\ late' = late \cup {q}
    /\ UNCHANGED flow
Failed(q) == Refused \/ Unanswered(q)

\* Mutant of Put: any answer counts as success, a 404 too.
PutAnyAnswer(q) ==
    /\ pc[q] = "put"
    /\ \/ /\ flow' = IF Subject(q) = {} THEN flow ELSE Obeyed(q, task[q].copy.wid)
          /\ task' = [task EXCEPT ![q].fine = TRUE]
          /\ UNCHANGED <<late, causes>>
       \/ Failed(q) /\ UNCHANGED task
    /\ Goto(q, "save")
    /\ UNCHANGED <<row, alone, kept>>

(***************************************************************************)
(* _deploy, its PUT: a 404 forgets the workflow and posts a new one; any   *)
(* other failure is reported with the saved recipe.                        *)
(***************************************************************************)
Put(q) ==
    /\ pc[q] = "put"
    /\ \/ /\ Subject(q) # {}
          /\ \E w \in Subject(q) : flow' = Obeyed(q, w)
          /\ task' = [task EXCEPT ![q].fine = TRUE]
          /\ Goto(q, "save")
          /\ UNCHANGED <<late, causes>>
       \/ /\ Subject(q) = {}
          /\ task' = [task EXCEPT ![q].copy.wid = NoWorkflow]
          /\ Goto(q, "post")
          /\ UNCHANGED <<flow, late, causes>>
       \/ /\ Failed(q)
          /\ Goto(q, "save")
          /\ UNCHANGED task
    /\ UNCHANGED <<row, alone, kept>>

\* Mutant of Post: what is stored is not the workflow's id.
PostWrongField(q) ==
    /\ pc[q] = "post"
    /\ Goto(q, "save")
    /\ \/ /\ \E w \in Subject(q) : flow' = Obeyed(q, w)
          /\ task' = [task EXCEPT ![q].copy.wid = task[q].def, ![q].fine = TRUE]
          /\ UNCHANGED <<late, causes>>
       \/ Failed(q) /\ UNCHANGED task
    /\ UNCHANGED <<row, alone, kept>>

(***************************************************************************)
(* _deploy, its POST: the new workflow's id goes into the row.             *)
(***************************************************************************)
Post(q) ==
    /\ pc[q] = "post"
    /\ Goto(q, "save")
    /\ \/ /\ \E w \in Subject(q) :
                /\ flow' = Obeyed(q, w)
                /\ task' = [task EXCEPT ![q].copy.wid = w, ![q].fine = TRUE]
          /\ UNCHANGED <<late, causes>>
       \/ Failed(q) /\ UNCHANGED task
    /\ UNCHANGED <<row, alone, kept>>

(***************************************************************************)
(* delete_recipe, its call: whatever n8n answers, the row goes next, and   *)
(* any answer at all is as good as obedience: only a call that went        *)
(* unanswered is held against n8n.                                         *)
(***************************************************************************)
Remove(q) ==
    /\ pc[q] = "remove"
    /\ Goto(q, "drop")
    /\ \/ /\ flow' = IF Subject(q) = {} THEN flow ELSE Obeyed(q, task[q].copy.wid)
          /\ task' = [task EXCEPT ![q].fine = TRUE]
          /\ UNCHANGED <<late, causes, kept>>
       \/ /\ Refused
          /\ task' = [task EXCEPT ![q].fine = TRUE]
          /\ kept' = kept \cup {task[q].copy.wid}
       \/ /\ Unanswered(q)
          /\ UNCHANGED <<task, kept>>
    /\ UNCHANGED <<row, alone>>

(***************************************************************************)
(* The answer names the workflow that may still exist, or is a plain       *)
(* success.  Deleting a row that is already gone is not an error.          *)
(***************************************************************************)
Drop(q) ==
    /\ pc[q] = "drop"
    /\ row' = [row EXCEPT ![task[q].row].state = "gone"]
    /\ Finish(q, IF task[q].fine \/ task[q].copy.wid = NoWorkflow
                 THEN "deleted" ELSE "nothing")
    /\ UNCHANGED <<flow, late, task, alone, causes, kept>>

(***************************************************************************)
(* _set_active, its call: the row follows only if n8n obeyed.              *)
(***************************************************************************)
Switch(q) ==
    /\ pc[q] = "switch"
    /\ \/ /\ Subject(q) # {}
          /\ flow' = Obeyed(q, task[q].copy.wid)
          /\ task' = [task EXCEPT ![q].copy.active = (task[q].op = "activate"),
                                  ![q].fine = TRUE]
          /\ Goto(q, "save")
          /\ UNCHANGED <<late, causes>>
       \/ /\ Subject(q) = {}
          /\ Finish(q, "nothing")
          /\ UNCHANGED <<flow, late, task, causes>>
       \/ Failed(q) /\ Finish(q, "nothing") /\ UNCHANGED task
    /\ UNCHANGED <<row, alone, kept>>

(***************************************************************************)
(* The commit: an insert, or an update of the columns that differ from     *)
(* what the session loaded.  An update that finds no row fails.            *)
(***************************************************************************)
Written(q) ==
    LET t == task[q]
    IN  [c \in DOMAIN t.copy |->
            IF t.copy[c] = t.loaded[c] THEN row[t.row][c] ELSE t.copy[c]]

Save(q) ==
    LET t == task[q]
    IN  /\ pc[q] = "save"
        /\ \/ /\ t.op = "create" \/ Live(t.row) \/ t.copy = t.loaded
              /\ row' = [row EXCEPT ![t.row] = Written(q)]
              /\ Finish(q, IF ~t.fine THEN "nothing"
                           ELSE IF t.op \in {"create", "update"} THEN "saved"
                           ELSE "switched")
           \/ /\ t.op # "create" /\ ~Live(t.row) /\ t.copy # t.loaded
              /\ Finish(q, "nothing")
              /\ UNCHANGED row
        /\ UNCHANGED <<flow, late, task, alone, causes, kept>>

(***************************************************************************)
(* The process dies half way: the transaction rolls back.                  *)
(***************************************************************************)
Lose(q) ==
    /\ q \in InProgress
    /\ Finish(q, "nothing")
    /\ causes' = causes \cup {"lost"}
    /\ UNCHANGED <<row, flow, late, task, alone, kept>>

(***************************************************************************)
(* n8n: an unanswered call arrives after all, and a workflow is removed in *)
(* its editor.                                                             *)
(***************************************************************************)
Disturbed ==
    /\ alone' = [p \in Request |-> alone[p] /\ p \notin InProgress]
    /\ lastWord' = Silence

TakeEffect(q) ==
    /\ q \in late
    /\ \E w \in Subject(q) : flow' = Obeyed(q, w)
    /\ late' = late \ {q}
    /\ Disturbed
    /\ UNCHANGED <<row, pc, task, causes, kept>>

EditorRemoves(w) ==
    /\ There(w)
    /\ flow' = [flow EXCEPT ![w].state = "gone"]
    /\ Disturbed
    /\ UNCHANGED <<row, late, pc, task, causes, kept>>

Step(q) ==
    \/ CheckName(q) \/ Insert(q) \/ Load(q) \/ Put(q) \/ Post(q)
    \/ Remove(q) \/ Drop(q) \/ Switch(q) \/ Save(q)

Next ==
    \/ \E q \in Request :
          \/ \E o \in Operation, r \in Row, d \in Definition \cup {NoDefinition} :
                Begin(q, o, r, d)
          \/ Step(q) \/ Lose(q) \/ TakeEffect(q)
    \/ \E w \in Workflow : EditorRemoves(w)

Spec == Init /\ [][Next]_vars

-----------------------------------------------------------------------------
(***************************************************************************)
(* Properties.                                                             *)
(***************************************************************************)

\* Every variable stays within its type.
TypeOK ==
    /\ row \in [Row -> Column]
    /\ flow \in [Workflow -> [state : {"none", "there", "gone"},
                              def : Definition \cup {NoDefinition}, active : BOOLEAN]]
    /\ late \subseteq Request
    /\ pc \in [Request -> {"new", "check", "insert", "load", "put", "post", "remove",
                           "drop", "switch", "save", "done"}]
    /\ task \in [Request -> [op : Operation, row : Row, def : Definition \cup {NoDefinition},
                             loaded : Column, copy : Column, fine : BOOLEAN]]
    /\ alone \in [Request -> BOOLEAN]
    /\ lastWord \in [row : Row, said : {"nothing", "saved", "switched", "deleted"}]
    /\ causes \subseteq {"overlap", "refused", "unanswered", "lost"}
    /\ kept \subseteq Workflow

\* Whatever went wrong before, a request that ran alone and whose answer holds
\* nothing against n8n leaves the two in step: after a save the workflow runs the
\* definition of the row, after an activation it is switched as the row says, and
\* after a deletion the row is gone and so is the workflow, unless n8n has refused to
\* delete it: delete_recipe does not tell a refusal from a success.
LastWordHolds ==
    LET r == lastWord.row
        w == row[r].wid
    IN  CASE lastWord.said = "saved" ->
               Live(r) /\ There(w) /\ flow[w].def = row[r].def
          [] lastWord.said = "switched" ->
               Live(r) /\ There(w) /\ flow[w].active = row[r].active
          [] lastWord.said = "deleted" -> ~Live(r) /\ (There(w) => w \in kept)
          [] OTHER -> TRUE

\* A deletion answered with a plain success leaves no workflow in n8n: delete_recipe
\* means to name in its answer the workflow it could not remove.
OrphanIsNamed ==
    lastWord.said = "deleted" => ~There(row[lastWord.row].wid)

\* A workflow no live row refers to, and no request is about to save or remove.
Orphan(w) ==
    /\ There(w)
    /\ \A r \in Row : Live(r) => row[r].wid # w
    /\ \A q \in InProgress : task[q].copy.wid # w

\* Requests that run one at a time and get their answers never leave a workflow
\* behind, not even when workflows are removed in the editor; and a request that
\* is lost half way leaves at most an idle one: an orphan that still runs on its
\* schedule takes a call n8n refused or did not answer, or two requests at once.
OrphanHasACause ==
    \A w \in Workflow : Orphan(w) =>
        /\ causes # {}
        /\ flow[w].active => causes \cap {"overlap", "refused", "unanswered"} # {}
=============================================================================
