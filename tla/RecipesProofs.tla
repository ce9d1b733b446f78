---------------------------- MODULE RecipesProofs ----------------------------
(***************************************************************************)
(* Proofs about Recipes, for any number of requests, rows, workflows and   *)
(* definitions.                                                            *)
(*                                                                         *)
(* Neither property is inductive: both speak of a row and a workflow that  *)
(* a handler changes in separate steps.  RecipeInv says what the handler   *)
(* knows in between.  A request that nothing else overlapped still has the *)
(* row it loaded, and n8n still as it was told (Alone, ToldHolds), so its  *)
(* last word holds; and as long as n8n obeyed and no two requests          *)
(* overlapped, a running workflow is some live row's (UndisturbedIsTidy).  *)
(***************************************************************************)
EXTENDS Recipes, TLAPS

\* A handler's place, and what it has read and decided on the way.
BeforeLoad == {"new", "check", "insert", "load"}
PastLoad == {"post", "put", "remove", "drop", "switch", "save"}

\* What a handler holds agrees with its place, whatever the others did.
Fits(step, t) ==
    /\ step \in BeforeLoad => t.copy = Blank /\ t.loaded = Blank /\ ~t.fine
    /\ step \in {"check", "insert"} => t.op = "create"
    /\ step = "load" => t.op # "create"
    /\ step = "post" =>
          t.op \in {"create", "update"} /\ t.copy.wid = NoWorkflow /\ ~t.fine
    /\ step = "put" => t.op = "update" /\ t.copy.wid = t.loaded.wid /\ ~t.fine
                       /\ t.copy.wid # NoWorkflow
    /\ step = "remove" => t.op = "delete" /\ t.copy.wid = t.loaded.wid /\ ~t.fine
                          /\ t.copy.wid # NoWorkflow
    /\ step = "drop" => t.op = "delete" /\ t.copy.wid = t.loaded.wid
    /\ step = "switch" => t.op \in {"activate", "deactivate"}
                          /\ t.copy.wid = t.loaded.wid /\ ~t.fine
    /\ step = "save" => /\ t.op # "delete"
                        /\ t.op \in {"activate", "deactivate"} => t.copy.wid = t.loaded.wid
    /\ step \in PastLoad =>
          /\ t.copy.state = "live"
          /\ t.loaded.state = IF t.op = "create" THEN "none" ELSE "live"

Handler(q) == Fits(pc[q], task[q])

HandlersAgree == \A q \in Request : Handler(q)

\* A workflow id that a row or a handler holds is one n8n has handed out.
Handed(w) == w \in Workflow => flow[w].state # "none"
IdsAreHanded ==
    /\ \A r \in Row : Handed(row[r].wid)
    /\ \A q \in Request : Handed(task[q].copy.wid)

\* No two requests have overlapped, and n8n obeyed every call.
Undisturbed == causes \cap {"overlap", "refused", "unanswered"} = {}

\* Nothing but q has been in progress since q began: the row is still what q
\* loaded, and a workflow q no longer holds on to is gone.
Alone(q) ==
    q \in InProgress /\ (alone[q] \/ Undisturbed) =>
        /\ \A p \in InProgress : p = q
        /\ pc[q] \in PastLoad =>
              /\ row[task[q].row] = task[q].loaded
              /\ task[q].copy.wid # task[q].loaded.wid => ~There(task[q].loaded.wid)

AloneIsAlone == \A q \in Request : Alone(q)

\* What n8n was told, by a request that nothing else overlapped, is still so.
ToldHolds ==
    \A q \in InProgress :
        LET t == task[q] IN
        alone[q] /\ t.fine =>
            /\ pc[q] = "save" /\ t.op \in {"create", "update"} =>
                  There(t.copy.wid) /\ flow[t.copy.wid].def = t.copy.def
            /\ pc[q] = "save" /\ t.op \notin {"create", "update"} =>
                  There(t.copy.wid) /\ flow[t.copy.wid].active = t.copy.active
            /\ pc[q] = "drop" /\ There(t.loaded.wid) => t.loaded.wid \in kept

\* A row is dropped after its workflow; a workflow that runs is some live row's; one
\* that exists is a row's, or is about to be.
Rowed(w) == \E r \in Row : Live(r) /\ row[r].wid = w
DroppedLast == \A q \in Request : pc[q] = "drop" => ~There(task[q].loaded.wid)
RunningAreRowed == \A w \in Workflow : There(w) /\ flow[w].active => Rowed(w)
NoneLeft == \A w \in Workflow :
    There(w) => Rowed(w) \/ \E q \in InProgress : task[q].copy.wid = w

UndisturbedIsTidy ==
    Undisturbed => /\ late = {} /\ DroppedLast /\ RunningAreRowed
                   /\ causes = {} => NoneLeft

RecipeInv ==
    /\ TypeOK /\ HandlersAgree /\ IdsAreHanded
    /\ AloneIsAlone /\ ToldHolds /\ UndisturbedIsTidy
    /\ LastWordHolds

-----------------------------------------------------------------------------
(* The columns of a row. *)

LEMMA ColumnFields ==
    /\ \A c \in Column : /\ c.state \in {"none", "live", "gone"}
                        /\ c.def \in Definition \cup {NoDefinition}
                        /\ c.wid \in Workflow \cup {NoWorkflow}
                        /\ c.active \in BOOLEAN
    /\ \A c \in Column, v \in {"none", "live", "gone"} : [c EXCEPT !.state = v] \in Column
    /\ \A c \in Column, v \in Definition \cup {NoDefinition} : [c EXCEPT !.def = v] \in Column
    /\ \A c \in Column, v \in Workflow \cup {NoWorkflow} : [c EXCEPT !.wid = v] \in Column
    /\ \A c \in Column, v \in BOOLEAN : [c EXCEPT !.active = v] \in Column
BY DEF Column

LEMMA FreshFields ==
    ASSUME NEW d \in Definition \cup {NoDefinition}
    PROVE  /\ Fresh(d) \in Column /\ Fresh(d).state = "live" /\ Fresh(d).def = d
           /\ Fresh(d).wid = NoWorkflow /\ Fresh(d).active = FALSE
BY DEF Fresh, Column

LEMMA BlankFields == Blank \in Column /\ Blank.state = "none" /\ Blank.wid = NoWorkflow
BY DEF Blank, Fresh, Column

Flow == [state : {"none", "there", "gone"}, def : Definition \cup {NoDefinition},
         active : BOOLEAN]

LEMMA FlowFields ==
    /\ \A f \in Flow : /\ f.state \in {"none", "there", "gone"}
                      /\ f.def \in Definition \cup {NoDefinition} /\ f.active \in BOOLEAN
    /\ \A f \in Flow, v \in {"none", "there", "gone"} : [f EXCEPT !.state = v] \in Flow
    /\ \A f \in Flow, v \in Definition \cup {NoDefinition} : [f EXCEPT !.def = v] \in Flow
    /\ \A f \in Flow, v \in BOOLEAN : [f EXCEPT !.active = v] \in Flow
    /\ \A d \in Definition \cup {NoDefinition} :
          Created(d) \in Flow /\ Created(d).state = "there" /\ Created(d).def = d
          /\ Created(d).active = FALSE
    /\ Absent \in Flow /\ Absent.state = "none"
BY DEF Flow, Created, Absent

Task == [op : Operation, row : Row, def : Definition \cup {NoDefinition},
         loaded : Column, copy : Column, fine : BOOLEAN]

LEMMA TaskFields ==
    /\ \A t \in Task : /\ t.op \in Operation /\ t.row \in Row
                      /\ t.def \in Definition \cup {NoDefinition}
                      /\ t.loaded \in Column /\ t.copy \in Column
                      /\ t.fine \in BOOLEAN
    /\ \A t \in Task, o \in Operation, r \in Row, d \in Definition \cup {NoDefinition} :
          [t EXCEPT !.op = o, !.row = r, !.def = d] \in Task
    /\ \A t \in Task, r \in Row, c \in Column : [t EXCEPT !.row = r, !.copy = c] \in Task
    /\ \A t \in Task, l, c \in Column : [t EXCEPT !.loaded = l, !.copy = c] \in Task
    /\ \A t \in Task, c \in Column : [t EXCEPT !.copy = c] \in Task
    /\ \A t \in Task, c \in Column, b \in BOOLEAN :
          [t EXCEPT !.copy = c, !.fine = b] \in Task
    /\ \A t \in Task, b \in BOOLEAN : [t EXCEPT !.fine = b] \in Task
BY DEF Task

\* What Save writes, column by column.
LEMMA WrittenFields ==
    ASSUME TypeOK, NEW q \in Request
    PROVE  /\ Written(q) \in Column
           /\ Written(q).state = (IF task[q].copy.state = task[q].loaded.state
                                  THEN row[task[q].row].state ELSE task[q].copy.state)
           /\ Written(q).def = (IF task[q].copy.def = task[q].loaded.def
                                THEN row[task[q].row].def ELSE task[q].copy.def)
           /\ Written(q).wid = (IF task[q].copy.wid = task[q].loaded.wid
                                THEN row[task[q].row].wid ELSE task[q].copy.wid)
           /\ Written(q).active = (IF task[q].copy.active = task[q].loaded.active
                                   THEN row[task[q].row].active ELSE task[q].copy.active)
<1>1. task[q].copy \in Column /\ task[q].loaded \in Column /\ row[task[q].row] \in Column
  BY DEF TypeOK
<1>2. DOMAIN task[q].copy = {"state", "def", "wid", "active"}
  BY <1>1 DEF Column
<1>3. Written(q) = [c \in {"state", "def", "wid", "active"} |->
                       IF task[q].copy[c] = task[q].loaded[c]
                       THEN row[task[q].row][c] ELSE task[q].copy[c]]
  BY <1>2 DEF Written
<1> QED
  BY <1>1, <1>3 DEF Column
-----------------------------------------------------------------------------
(* What each call and its commit do, in terms of the handler's new task t. *)

\* q goes on to a step, with t for its task.
Moves(q, step, t) ==
    /\ t \in Task
    /\ t.op = task[q].op
    /\ task' = [task EXCEPT ![q] = t]
    /\ pc' = [pc EXCEPT ![q] = step]
    /\ UNCHANGED alone

\* q ends without a word.
Stops(q) ==
    /\ pc' = [pc EXCEPT ![q] = "done"]
    /\ lastWord' = Silence
    /\ UNCHANGED <<row, flow, task, alone>>

\* n8n refused, or did not answer.
Fails(q) ==
    /\ late' \in {late, late \cup {q}}
    /\ \E c \in {"refused", "unanswered"} : causes' = causes \cup {c}

LEMMA FailedEffect ==
    ASSUME NEW q \in Request, Failed(q) PROVE Fails(q) /\ UNCHANGED flow
BY DEF Failed, Refused, Unanswered, Fails

LEMMA SubjectIsFlow ==
    ASSUME TypeOK, NEW q \in Request, NEW w \in Subject(q)
    PROVE  /\ w \in Workflow
           /\ IF task[q].op \in {"create", "update"} /\ task[q].copy.wid = NoWorkflow
              THEN flow[w] = Absent ELSE w = task[q].copy.wid /\ There(w)
BY DEF Subject, There

LEMMA PutEffect ==
    ASSUME TypeOK, NEW q \in Request, Handler(q), Put(q)
    PROVE  /\ pc[q] = "put" /\ lastWord' = Silence /\ UNCHANGED row
           /\ \E t \in Task : \E step \in {"save", "post"} :
                 /\ Moves(q, step, t)
                 /\ t.row = task[q].row /\ t.loaded = task[q].loaded
                 /\ \/ /\ step = "save" /\ t.copy = task[q].copy /\ t.fine
                       /\ There(t.copy.wid)
                       /\ flow' = [flow EXCEPT ![t.copy.wid].def = t.copy.def]
                       /\ UNCHANGED <<late, causes>>
                    \/ /\ step = "post" /\ t.copy = [task[q].copy EXCEPT !.wid = NoWorkflow]
                       /\ ~There(task[q].copy.wid) /\ ~t.fine
                       /\ UNCHANGED <<flow, late, causes>>
                    \/ /\ step = "save" /\ t = task[q] /\ Fails(q) /\ UNCHANGED flow
<1> DEFINE s == task[q]
<1>0. /\ pc[q] = "put" /\ s.op = "update" /\ ~s.fine /\ s.copy.wid # NoWorkflow
      /\ s \in Task /\ s.copy \in Column
  BY DEF Put, Handler, Fits, TypeOK, Task
<1>1. lastWord' = Silence /\ UNCHANGED <<row, alone>>
  BY DEF Put, Goto
<1>2. CASE Subject(q) # {} /\ task' = [task EXCEPT ![q].fine = TRUE]
           /\ Goto(q, "save") /\ \E w \in Subject(q) : flow' = Obeyed(q, w)
           /\ UNCHANGED <<late, causes>>
  <2> DEFINE t == [s EXCEPT !.fine = TRUE]
  <2>1. PICK w \in Subject(q) : flow' = Obeyed(q, w)
    BY <1>2
  <2>2. w = s.copy.wid /\ There(w)
    BY <1>0, <2>1, SubjectIsFlow
  <2>3. flow' = [flow EXCEPT ![w].def = s.copy.def]
    BY <1>0, <2>1 DEF Obeyed
  <2>4. t \in Task /\ t.copy = s.copy /\ t.op = s.op /\ t.row = s.row
        /\ t.loaded = s.loaded /\ t.fine
    BY <1>0 DEF Task
  <2>5. task' = [task EXCEPT ![q] = t]
    BY <1>2
  <2> HIDE DEF t
  <2> QED
    BY <1>0, <1>1, <1>2, <2>2, <2>3, <2>4, <2>5 DEF Moves, Goto
<1>3. CASE Subject(q) = {} /\ task' = [task EXCEPT ![q].copy.wid = NoWorkflow]
           /\ Goto(q, "post") /\ UNCHANGED <<flow, late, causes>>
  <2> DEFINE c == [s.copy EXCEPT !.wid = NoWorkflow]
             t == [s EXCEPT !.copy = c]
  <2>1. c \in Column
    BY <1>0, ColumnFields
  <2>2. ~There(s.copy.wid)
    BY <1>0, <1>3 DEF Subject, There
  <2>3. task' = [task EXCEPT ![q] = t]
    BY <1>3
  <2> HIDE DEF c
  <2>4. t \in Task /\ t.copy = c /\ t.op = s.op /\ t.row = s.row
        /\ t.loaded = s.loaded /\ ~t.fine
    BY <1>0, <2>1 DEF Task
  <2> HIDE DEF t
  <2> QED
    BY <1>0, <1>1, <1>3, <2>2, <2>3, <2>4 DEF Moves, Goto, c
<1>4. CASE Failed(q) /\ Goto(q, "save") /\ UNCHANGED task
  <2>1. Fails(q) /\ UNCHANGED flow
    BY <1>4, FailedEffect
  <2>2. task' = [task EXCEPT ![q] = s]
    BY <1>4 DEF TypeOK
  <2> QED
    BY <1>0, <1>1, <1>4, <2>1, <2>2 DEF Moves, Goto
<1> QED
  BY <1>2, <1>3, <1>4 DEF Put
LEMMA PostEffect ==
    ASSUME TypeOK, NEW q \in Request, Handler(q), Post(q)
    PROVE  /\ pc[q] = "post" /\ lastWord' = Silence /\ UNCHANGED row
           /\ \E t \in Task :
                 /\ Moves(q, "save", t)
                 /\ t.row = task[q].row /\ t.loaded = task[q].loaded
                 /\ \/ \E w \in Workflow :
                          /\ t.copy = [task[q].copy EXCEPT !.wid = w] /\ t.fine
                          /\ flow[w] = Absent
                          /\ flow' = [flow EXCEPT ![w] = Created(t.copy.def)]
                          /\ UNCHANGED <<late, causes>>
                    \/ t = task[q] /\ ~t.fine /\ Fails(q) /\ UNCHANGED flow
<1> DEFINE s == task[q]
<1>0. /\ pc[q] = "post" /\ s.op \in {"create", "update"} /\ ~s.fine
      /\ s.copy.wid = NoWorkflow /\ s \in Task /\ s.copy \in Column
  BY DEF Post, Handler, Fits, TypeOK, Task
<1>1. lastWord' = Silence /\ UNCHANGED <<row, alone>> /\ Goto(q, "save")
  BY DEF Post, Goto
<1>2. ASSUME NEW w \in Subject(q), flow' = Obeyed(q, w), UNCHANGED <<late, causes>>,
             task' = [task EXCEPT ![q].copy.wid = w, ![q].fine = TRUE]
      PROVE  \E t \in Task :
                 /\ Moves(q, "save", t)
                 /\ t.row = s.row /\ t.loaded = s.loaded
                 /\ t.copy = [s.copy EXCEPT !.wid = w] /\ t.fine
                 /\ w \in Workflow /\ flow[w] = Absent
                 /\ flow' = [flow EXCEPT ![w] = Created(t.copy.def)]
  <2> DEFINE c == [s.copy EXCEPT !.wid = w]
             t == [s EXCEPT !.copy = c, !.fine = TRUE]
  <2>1. w \in Workflow /\ flow[w] = Absent
    BY <1>0, <1>2, SubjectIsFlow
  <2>2. flow' = [flow EXCEPT ![w] = Created(s.copy.def)]
    BY <1>0, <1>2 DEF Obeyed
  <2>3. c \in Column /\ c.def = s.copy.def
    BY <1>0, <2>1 DEF Column
  <2>4. task' = [task EXCEPT ![q] = t]
    <3>1. task' = [[task EXCEPT ![q] = [task[q] EXCEPT !.copy = c]] EXCEPT ![q].fine = TRUE]
      BY <1>2
    <3>2. task \in [Request -> Task]
      BY DEF TypeOK, Task
    <3> HIDE DEF c
    <3> QED
      BY <3>1, <3>2 DEF Task
  <2> HIDE DEF c
  <2>5. t \in Task /\ t.copy = c /\ t.op = s.op /\ t.row = s.row
        /\ t.loaded = s.loaded /\ t.fine
    BY <1>0, <2>3 DEF Task
  <2> HIDE DEF t
  <2> QED
    BY <1>0, <1>1, <2>1, <2>2, <2>3, <2>4, <2>5 DEF Moves, Goto, c
<1>3. CASE Failed(q) /\ UNCHANGED task
  <2>1. Fails(q) /\ UNCHANGED flow
    BY <1>3, FailedEffect
  <2>2. task' = [task EXCEPT ![q] = s]
    BY <1>3 DEF TypeOK
  <2> QED
    BY <1>0, <1>1, <1>3, <2>1, <2>2 DEF Moves, Goto
<1>4. (Failed(q) /\ UNCHANGED task)
      \/ \E w \in Subject(q) :
            /\ flow' = Obeyed(q, w) /\ UNCHANGED <<late, causes>>
            /\ task' = [task EXCEPT ![q].copy.wid = w, ![q].fine = TRUE]
  BY DEF Post
<1> QED
  BY <1>0, <1>1, <1>2, <1>3, <1>4

LEMMA RemoveEffect ==
    ASSUME TypeOK, NEW q \in Request, Handler(q), Remove(q)
    PROVE  /\ pc[q] = "remove" /\ lastWord' = Silence /\ UNCHANGED row
           /\ \E t \in Task :
                 /\ Moves(q, "drop", t)
                 /\ t.row = task[q].row /\ t.loaded = task[q].loaded
                 /\ t.copy = task[q].copy
                 /\ \/ /\ t.fine
                       /\ IF There(t.copy.wid)
                          THEN flow' = [flow EXCEPT ![t.copy.wid].state = "gone"]
                          ELSE UNCHANGED flow
                       /\ UNCHANGED <<late, causes>>
                    \/ /\ t.fine => t.copy.wid \in kept'
                       /\ Fails(q) /\ UNCHANGED flow
           /\ kept' \in {kept, kept \cup {task[q].copy.wid}}
<1> DEFINE s == task[q]
<1>0. pc[q] = "remove" /\ s.op = "delete" /\ ~s.fine /\ s \in Task
  BY DEF Remove, Handler, Fits, TypeOK, Task
<1>1. lastWord' = Silence /\ UNCHANGED <<row, alone>> /\ Goto(q, "drop")
  BY DEF Remove, Goto
<1>2. CASE /\ flow' = IF Subject(q) = {} THEN flow ELSE Obeyed(q, s.copy.wid)
           /\ task' = [task EXCEPT ![q].fine = TRUE]
           /\ UNCHANGED <<late, causes, kept>>
  <2> DEFINE t == [s EXCEPT !.fine = TRUE]
  <2>1. Subject(q) # {} <=> There(s.copy.wid)
    BY <1>0 DEF Subject, There
  <2>2. IF There(s.copy.wid) THEN flow' = [flow EXCEPT ![s.copy.wid].state = "gone"]
                             ELSE UNCHANGED flow
    BY <1>0, <1>2, <2>1 DEF Obeyed
  <2>3. t \in Task /\ t.copy = s.copy /\ t.op = s.op /\ t.row = s.row
        /\ t.loaded = s.loaded /\ t.fine
    BY <1>0 DEF Task
  <2>4. task' = [task EXCEPT ![q] = t]
    BY <1>2
  <2> HIDE DEF t
  <2> QED
    BY <1>0, <1>1, <1>2, <2>2, <2>3, <2>4 DEF Moves, Goto
<1>3. CASE Refused /\ task' = [task EXCEPT ![q].fine = TRUE]
           /\ kept' = kept \cup {s.copy.wid}
  <2> DEFINE t == [s EXCEPT !.fine = TRUE]
  <2>1. Fails(q) /\ UNCHANGED flow
    BY <1>3 DEF Refused, Fails
  <2>2. t \in Task /\ t.copy = s.copy /\ t.op = s.op /\ t.row = s.row
        /\ t.loaded = s.loaded
    BY <1>0 DEF Task
  <2>3. task' = [task EXCEPT ![q] = t]
    BY <1>3
  <2> HIDE DEF t
  <2> QED
    BY <1>0, <1>1, <1>3, <2>1, <2>2, <2>3 DEF Moves, Goto
<1>4. CASE Unanswered(q) /\ UNCHANGED <<task, kept>>
  <2>1. Fails(q) /\ UNCHANGED flow
    BY <1>4 DEF Unanswered, Fails
  <2>2. task' = [task EXCEPT ![q] = s]
    BY <1>4 DEF TypeOK
  <2> QED
    BY <1>0, <1>1, <1>4, <2>1, <2>2 DEF Moves, Goto
<1> QED
  BY <1>2, <1>3, <1>4 DEF Remove

LEMMA SwitchEffect ==
    ASSUME TypeOK, NEW q \in Request, Handler(q), Switch(q)
    PROVE  /\ pc[q] = "switch" /\ lastWord' = Silence /\ UNCHANGED row
           /\ \/ \E t \in Task :
                    /\ Moves(q, "save", t)
                    /\ t.row = task[q].row /\ t.loaded = task[q].loaded
                    /\ t.fine /\ There(t.copy.wid)
                    /\ t.copy = [task[q].copy EXCEPT !.active = (t.op = "activate")]
                    /\ flow' = [flow EXCEPT ![t.copy.wid].active = t.copy.active]
                    /\ UNCHANGED <<late, causes>>
              \/ Stops(q) /\ UNCHANGED <<late, causes>>
              \/ Stops(q) /\ Fails(q)
<1> DEFINE s == task[q]
<1>0. /\ pc[q] = "switch" /\ s.op \in {"activate", "deactivate"} /\ ~s.fine
      /\ s \in Task /\ s.copy \in Column /\ UNCHANGED <<row, alone>>
  BY DEF Switch, Handler, Fits, TypeOK, Task
<1>2. CASE /\ Subject(q) # {}
           /\ flow' = Obeyed(q, s.copy.wid)
           /\ task' = [task EXCEPT ![q].copy.active = (s.op = "activate"),
                                   ![q].fine = TRUE]
           /\ Goto(q, "save")
           /\ UNCHANGED <<late, causes>>
  <2> DEFINE b == (s.op = "activate")
             c == [s.copy EXCEPT !.active = b]
             t == [s EXCEPT !.copy = c, !.fine = TRUE]
  <2>1. There(s.copy.wid)
    BY <1>0, <1>2 DEF Subject
  <2>2. flow' = [flow EXCEPT ![s.copy.wid].active = b]
    BY <1>0, <1>2 DEF Obeyed
  <2>3. c \in Column /\ c.wid = s.copy.wid /\ c.active = b
    BY <1>0 DEF Column
  <2>4. task' = [task EXCEPT ![q] = t]
    <3>1. task' = [[task EXCEPT ![q] = [task[q] EXCEPT !.copy = c]] EXCEPT ![q].fine = TRUE]
      BY <1>2
    <3>2. task \in [Request -> Task]
      BY DEF TypeOK, Task
    <3> HIDE DEF c
    <3> QED
      BY <3>1, <3>2 DEF Task
  <2> HIDE DEF c
  <2>5. t \in Task /\ t.copy = c /\ t.op = s.op /\ t.row = s.row
        /\ t.loaded = s.loaded /\ t.fine
    BY <1>0, <2>3 DEF Task
  <2> HIDE DEF t
  <2>6. c = [s.copy EXCEPT !.active = (t.op = "activate")]
    BY <2>5 DEF c
  <2>7. Moves(q, "save", t)
    BY <1>0, <1>2, <2>4, <2>5 DEF Moves, Goto
  <2>8. There(t.copy.wid) /\ flow' = [flow EXCEPT ![t.copy.wid].active = t.copy.active]
    BY <2>1, <2>2, <2>3, <2>5
  <2>9. lastWord' = Silence
    BY <1>2 DEF Goto
  <2>10. t.copy = [s.copy EXCEPT !.active = (t.op = "activate")]
    BY <2>5, <2>6
  <2> HIDE DEF b
  <2> QED
    BY <1>0, <1>2, <2>5, <2>7, <2>8, <2>9, <2>10, Zenon
<1>3. CASE Finish(q, "nothing") /\ UNCHANGED <<flow, task>>
           /\ (UNCHANGED <<late, causes>> \/ Fails(q))
  BY <1>0, <1>3 DEF Stops, Finish
<1>4. Failed(q) => Fails(q) /\ UNCHANGED flow
  BY FailedEffect
<1> QED
  BY <1>0, <1>2, <1>3, <1>4 DEF Switch

LEMMA InsertEffect ==
    ASSUME TypeOK, NEW q \in Request, Handler(q), Insert(q)
    PROVE  /\ pc[q] = "insert" /\ lastWord' = Silence /\ UNCHANGED <<row, flow, late, causes>>
           /\ \/ Stops(q)
              \/ \E t \in Task :
                    /\ Moves(q, "post", t)
                    /\ row[t.row] = Blank /\ t.loaded = Blank
                    /\ t.copy = Fresh(task[q].def) /\ ~t.fine
<1> DEFINE s == task[q]
<1>0. /\ pc[q] = "insert" /\ s.loaded = Blank /\ ~s.fine
      /\ s \in Task /\ UNCHANGED <<row, flow, late, causes, alone>>
  BY DEF Insert, Handler, Fits, TypeOK, Task, BeforeLoad
<1>1. CASE Finish(q, "nothing") /\ UNCHANGED task
  BY <1>0, <1>1 DEF Stops, Finish
<1>2. ASSUME NEW r \in Row, row[r] = Blank, Goto(q, "post"),
             task' = [task EXCEPT ![q].row = r, ![q].copy = Fresh(s.def)]
      PROVE  lastWord' = Silence /\ \E t \in Task :
                    /\ Moves(q, "post", t)
                    /\ row[t.row] = Blank /\ t.loaded = Blank
                    /\ t.copy = Fresh(s.def) /\ ~t.fine
  <2>1. s.def \in Definition \cup {NoDefinition}
    BY <1>0 DEF Task
  <2>2. PICK c \in Column : c = Fresh(s.def)
    BY <2>1, FreshFields
  <2> DEFINE t == [s EXCEPT !.row = r, !.copy = c]
  <2>3. t \in Task /\ t.op = s.op /\ t.row = r /\ t.copy = c /\ t.loaded = Blank /\ ~t.fine
    BY <1>0 DEF Task
  <2>4. task' = [task EXCEPT ![q] = t]
    <3>1. task \in [Request -> Task]
      BY DEF TypeOK, Task
    <3> QED
      BY <1>2, <2>2, <3>1 DEF Task
  <2> HIDE DEF t
  <2> QED
    BY <1>0, <1>2, <2>2, <2>3, <2>4 DEF Moves, Goto
<1> QED
  BY <1>0, <1>1, <1>2 DEF Insert, Finish, Goto

LEMMA LoadEffect ==
    ASSUME TypeOK, NEW q \in Request, Handler(q), Load(q)
    PROVE  /\ pc[q] = "load" /\ task[q].op # "create"
           /\ lastWord' = Silence /\ UNCHANGED <<row, flow, late, causes>>
           /\ \/ Stops(q)
              \/ \E t \in Task : \E step \in {"post", "put", "drop", "remove", "switch", "done"} :
                    /\ Moves(q, step, t)
                    /\ t.row = task[q].row /\ Live(t.row) /\ t.loaded = row[t.row]
                    /\ t.copy.state = t.loaded.state /\ t.copy.wid = t.loaded.wid
                    /\ ~t.fine
                    /\ step = "post" => t.op = "update" /\ t.copy.wid = NoWorkflow
                    /\ step = "put" => t.op = "update" /\ t.copy.wid # NoWorkflow
                    /\ step \in {"drop", "remove"} => t.op = "delete"
                    /\ step = "drop" => t.copy.wid = NoWorkflow
                    /\ step = "remove" => t.copy.wid # NoWorkflow
                    /\ step = "switch" => t.op \in {"activate", "deactivate"}
<1> DEFINE s == task[q]
<1>0. /\ pc[q] = "load" /\ s.op # "create" /\ ~s.fine
      /\ s \in Task /\ UNCHANGED <<row, flow, late, causes, alone>>
  BY DEF Load, Handler, Fits, TypeOK, Task, BeforeLoad
<1>1. CASE ~Live(s.row)
  BY <1>0, <1>1 DEF Load, Stops, Finish
<1>2. CASE Live(s.row)
  <2>1. PICK l \in Column : l = row[s.row]
    BY DEF TypeOK
  <2> DEFINE c == IF s.op = "update" THEN [l EXCEPT !.def = s.def] ELSE l
             t == [s EXCEPT !.loaded = l, !.copy = c]
  <2>2. c \in Column /\ c.state = l.state /\ c.wid = l.wid
    BY <1>0 DEF Task, Column
  <2>3. task' = [task EXCEPT ![q] = t]
    <3>1. task' = [task EXCEPT ![q].loaded = l, ![q].copy = c]
      BY <1>2, <2>1 DEF Load
    <3>2. task \in [Request -> Task]
      BY DEF TypeOK, Task
    <3> HIDE DEF c
    <3> QED
      BY <3>1, <3>2 DEF Task
  <2>4. lastWord' = Silence /\
        \E step \in {"post", "put", "drop", "remove", "switch", "done"} :
           /\ pc' = [pc EXCEPT ![q] = step]
           /\ step = "post" => s.op = "update" /\ l.wid = NoWorkflow
           /\ step = "put" => s.op = "update" /\ l.wid # NoWorkflow
           /\ step \in {"drop", "remove"} => s.op = "delete"
           /\ step = "drop" => l.wid = NoWorkflow
           /\ step = "remove" => l.wid # NoWorkflow
           /\ step = "switch" => s.op \in {"activate", "deactivate"}
    <3>1. s.op \in {"update", "delete", "activate", "deactivate"}
      BY <1>0 DEF Task, Operation
    <3>2. CASE s.op = "update"
      BY <1>2, <2>1, <3>2 DEF Load, Goto
    <3>3. CASE s.op = "delete"
      BY <1>2, <2>1, <3>3 DEF Load, Goto
    <3>4. CASE s.op \in {"activate", "deactivate"}
      BY <1>2, <2>1, <3>4 DEF Load, Goto, Finish
    <3> QED
      BY <3>1, <3>2, <3>3, <3>4
  <2> HIDE DEF c
  <2>5. t \in Task /\ t.op = s.op /\ t.row = s.row /\ t.loaded = l /\ t.copy = c
        /\ ~t.fine
    BY <1>0, <2>2 DEF Task
  <2> HIDE DEF t
  <2>6. PICK step \in {"post", "put", "drop", "remove", "switch", "done"} :
           /\ pc' = [pc EXCEPT ![q] = step]
           /\ step = "post" => s.op = "update" /\ l.wid = NoWorkflow
           /\ step = "put" => s.op = "update" /\ l.wid # NoWorkflow
           /\ step \in {"drop", "remove"} => s.op = "delete"
           /\ step = "drop" => l.wid = NoWorkflow
           /\ step = "remove" => l.wid # NoWorkflow
           /\ step = "switch" => s.op \in {"activate", "deactivate"}
    BY <2>4
  <2>7. Moves(q, step, t)
    BY <1>0, <2>3, <2>5, <2>6 DEF Moves
  <2> QED
    BY <1>0, <1>2, <2>1, <2>2, <2>4, <2>5, <2>6, <2>7
<1> QED
  BY <1>1, <1>2
\* Whatever is obeyed, a workflow once handed out stays so, and does not return.
FlowGrows(f) ==
    /\ f \in [Workflow -> Flow]
    /\ \A w \in Workflow :
          flow[w].state # "none" => f[w].state # "none"
                                    /\ (f[w].state = "there" => flow[w].state = "there")

LEMMA ObeyedEffect ==
    ASSUME TypeOK, NEW q \in Request, NEW w \in Subject(q)
    PROVE  FlowGrows(Obeyed(q, w))
<1> DEFINE s == task[q]
<1>0. flow \in [Workflow -> Flow] /\ s \in Task /\ s.copy \in Column
  BY DEF TypeOK, Task, Flow
<1>1. CASE s.op \in {"create", "update"} /\ s.copy.wid = NoWorkflow
  <2>1. w \in Workflow /\ flow[w] = Absent
    BY <1>1, SubjectIsFlow
  <2>2. s.copy.def \in Definition \cup {NoDefinition}
    BY <1>0, ColumnFields
  <2>3. PICK f \in Flow : f = Created(s.copy.def)
    BY <2>2, FlowFields
  <2>4. Obeyed(q, w) = [flow EXCEPT ![w] = f]
    BY <1>1, <2>3 DEF Obeyed
  <2> QED
    BY <1>0, <2>1, <2>3, <2>4, FlowFields DEF FlowGrows
<1>2. CASE ~(s.op \in {"create", "update"} /\ s.copy.wid = NoWorkflow)
  <2>1. w \in Workflow /\ w = s.copy.wid /\ flow[w].state = "there"
    BY <1>2, SubjectIsFlow DEF There
  <2>2. PICK f \in Flow : /\ Obeyed(q, w) = [flow EXCEPT ![w] = f]
                          /\ f.state # "none"
    <3>1. CASE s.op = "create"
      <4>1. Obeyed(q, w) = [flow EXCEPT ![w].active = FALSE]
        BY <1>2, <3>1 DEF Obeyed
      <4>3. PICK f \in Flow : f = [flow[w] EXCEPT !.active = FALSE]
        BY <1>0, <2>1, FlowFields
      <4>4. f.state = flow[w].state
        BY <1>0, <2>1, <4>3 DEF Flow
      <4> QED
        BY <1>0, <2>1, <4>1, <4>3, <4>4
    <3>2. CASE s.op = "update"
      <4>1. Obeyed(q, w) = [flow EXCEPT ![w].def = s.copy.def]
        BY <1>2, <3>2 DEF Obeyed
      <4>2. s.copy.def \in Definition \cup {NoDefinition}
        BY <1>0, ColumnFields
      <4>3. PICK f \in Flow : f = [flow[w] EXCEPT !.def = s.copy.def]
        BY <1>0, <2>1, <4>2, FlowFields
      <4>4. f.state = flow[w].state
        BY <1>0, <2>1, <4>3 DEF Flow
      <4> QED
        BY <1>0, <2>1, <4>1, <4>3, <4>4
    <3>3. CASE s.op = "delete"
      <4>1. Obeyed(q, w) = [flow EXCEPT ![w].state = "gone"]
        BY <3>3 DEF Obeyed
      <4>3. PICK f \in Flow : f = [flow[w] EXCEPT !.state = "gone"]
        BY <1>0, <2>1, FlowFields
      <4>4. f.state = "gone"
        BY <1>0, <2>1, <4>3 DEF Flow
      <4> QED
        BY <1>0, <2>1, <4>1, <4>3, <4>4
    <3>4. CASE s.op \in {"activate", "deactivate"}
      <4>1. Obeyed(q, w) = [flow EXCEPT ![w].active = (s.op = "activate")]
        BY <3>4 DEF Obeyed
      <4>3. PICK f \in Flow : f = [flow[w] EXCEPT !.active = (s.op = "activate")]
        BY <1>0, <2>1, FlowFields
      <4>4. f.state = flow[w].state
        BY <1>0, <2>1, <4>3 DEF Flow
      <4> QED
        BY <1>0, <2>1, <4>1, <4>3, <4>4
    <3> QED
      BY <1>0, <3>1, <3>2, <3>3, <3>4 DEF Task, Operation
  <2> QED
    BY <1>0, <2>1, <2>2 DEF FlowGrows
<1> QED
  BY <1>1, <1>2

LEMMA RemovedEffect ==
    ASSUME TypeOK, NEW w \in Workflow, flow' = [flow EXCEPT ![w].state = "gone"]
    PROVE  FlowGrows(flow') /\ ~There(w)'
<1>1. flow \in [Workflow -> Flow]
  BY DEF TypeOK, Flow
<1>2. PICK f \in Flow : f = [flow[w] EXCEPT !.state = "gone"]
  BY <1>1, FlowFields
<1>3. f.state = "gone" /\ flow' = [flow EXCEPT ![w] = f]
  BY <1>1, <1>2 DEF Flow
<1> QED
  BY <1>1, <1>2, <1>3 DEF FlowGrows, There

LEMMA FlowStep ==
    ASSUME TypeOK, HandlersAgree, [Next]_vars PROVE FlowGrows(flow')
<1>1. FlowGrows(flow)
  BY DEF FlowGrows, TypeOK, Flow
<1>2. ASSUME NEW q \in Request, Put(q) \/ Post(q) \/ TakeEffect(q) PROVE FlowGrows(flow')
  <2>1. CASE UNCHANGED flow
    BY <1>1, <2>1
  <2>2. CASE ~UNCHANGED flow
    <3>1. PICK w \in Subject(q) : flow' = Obeyed(q, w)
      BY <1>2, <2>2, FailedEffect DEF Put, Post, TakeEffect
    <3> QED
      BY <3>1, ObeyedEffect
  <2> QED
    BY <2>1, <2>2
<1>3. ASSUME NEW q \in Request, Remove(q) PROVE FlowGrows(flow')
  BY <1>1, <1>3, RemoveEffect, RemovedEffect DEF HandlersAgree, There
<1>4. ASSUME NEW q \in Request, Switch(q) PROVE FlowGrows(flow')
  <2>1. CASE UNCHANGED flow
    BY <1>1, <2>1
  <2>2. CASE ~UNCHANGED flow
    <3>1. Subject(q) # {} /\ flow' = Obeyed(q, task[q].copy.wid)
      BY <1>4, <2>2, FailedEffect DEF Switch
    <3>2. task[q].op \notin {"create", "update"}
      BY <1>4 DEF Switch, HandlersAgree, Handler, Fits
    <3>3. task[q].copy.wid \in Subject(q)
      BY <3>1, <3>2 DEF Subject
    <3> QED
      BY <3>1, <3>3, ObeyedEffect
  <2> QED
    BY <2>1, <2>2
<1>5. ASSUME NEW w \in Workflow, EditorRemoves(w) PROVE FlowGrows(flow')
  BY <1>5, RemovedEffect DEF EditorRemoves
<1>6. CASE UNCHANGED flow
  BY <1>1, <1>6
<1> QED
  <2>1. ASSUME NEW q \in Request, NEW o \in Operation, NEW r \in Row,
               NEW d \in Definition \cup {NoDefinition}, Begin(q, o, r, d)
        PROVE  UNCHANGED flow
    BY <2>1 DEF Begin
  <2>2. ASSUME NEW q \in Request, CheckName(q) \/ Insert(q) \/ Load(q) \/ Drop(q) \/ Lose(q)
        PROVE  UNCHANGED flow
    BY <2>2 DEF CheckName, Insert, Load, Drop, Lose
  <2>3. ASSUME NEW q \in Request, Save(q) PROVE UNCHANGED flow
    BY <2>3 DEF Save
  <2>4. UNCHANGED vars => UNCHANGED flow
    BY DEF vars
  <2> QED
    BY <1>2, <1>3, <1>4, <1>5, <1>6, <2>1, <2>2, <2>3, <2>4 DEF Next, Step

LEMMA SaveEffect ==
    ASSUME TypeOK, NEW q \in Request, Save(q)
    PROVE  /\ pc[q] = "save" /\ pc' = [pc EXCEPT ![q] = "done"]
           /\ UNCHANGED <<flow, late, task, alone, causes>>
           /\ \/ /\ row' = [row EXCEPT ![task[q].row] = Written(q)]
                 /\ lastWord' =
                       IF alone[q] /\ task[q].fine
                       THEN [row |-> task[q].row,
                             said |-> IF task[q].op \in {"create", "update"}
                                      THEN "saved" ELSE "switched"]
                       ELSE Silence
              \/ /\ task[q].op # "create" /\ ~Live(task[q].row)
                 /\ lastWord' = Silence /\ UNCHANGED row
<1>0. pc[q] = "save" /\ UNCHANGED <<flow, late, task, alone, causes>>
  BY DEF Save
<1> DEFINE said == IF ~task[q].fine THEN "nothing"
                   ELSE IF task[q].op \in {"create", "update"} THEN "saved" ELSE "switched"
<1>1. said = IF ~task[q].fine THEN "nothing"
             ELSE IF task[q].op \in {"create", "update"} THEN "saved" ELSE "switched"
  OBVIOUS
<1>2. CASE row' = [row EXCEPT ![task[q].row] = Written(q)] /\ Finish(q, said)
  <2>1. lastWord' = IF alone[q] /\ said # "nothing"
                    THEN [row |-> task[q].row, said |-> said] ELSE Silence
    BY <1>2 DEF Finish
  <2> HIDE DEF said
  <2> QED
    BY <1>0, <1>1, <1>2, <2>1 DEF Finish
<1>3. CASE /\ task[q].op # "create" /\ ~Live(task[q].row)
           /\ Finish(q, "nothing") /\ UNCHANGED row
  BY <1>0, <1>3 DEF Finish
<1> QED
  BY <1>2, <1>3 DEF Save

LEMMA DropEffect ==
    ASSUME TypeOK, NEW q \in Request, Drop(q)
    PROVE  /\ pc[q] = "drop" /\ pc' = [pc EXCEPT ![q] = "done"]
           /\ UNCHANGED <<flow, late, task, alone, causes>>
           /\ row' = [row EXCEPT ![task[q].row].state = "gone"]
           /\ lastWord' = IF alone[q] /\ (task[q].fine \/ task[q].copy.wid = NoWorkflow)
                          THEN [row |-> task[q].row, said |-> "deleted"] ELSE Silence
BY DEF Drop, Finish, TypeOK

LEMMA BeginEffect ==
    ASSUME TypeOK, NEW q \in Request, NEW o \in Operation, NEW r \in Row,
           NEW d \in Definition \cup {NoDefinition}, Begin(q, o, r, d)
    PROVE  /\ pc[q] = "new" /\ lastWord' = Silence /\ UNCHANGED <<row, flow, late>>
           /\ alone' = [p \in Request |->
                           alone[p] /\ p \notin InProgress /\ (p = q => InProgress = {})]
           /\ causes' = IF InProgress = {} THEN causes ELSE causes \cup {"overlap"}
           /\ \E t \in Task :
                 /\ task' = [task EXCEPT ![q] = t]
                 /\ pc' = [pc EXCEPT ![q] = IF t.op = "create" THEN "check" ELSE "load"]
                 /\ t.copy = task[q].copy /\ t.loaded = task[q].loaded
                 /\ t.fine = task[q].fine
<1> DEFINE t == [task[q] EXCEPT !.op = o, !.row = r, !.def = d]
<1>1. task[q] \in Task
  BY DEF TypeOK, Task
<1>2. /\ t \in Task /\ t.op = o /\ t.copy = task[q].copy /\ t.loaded = task[q].loaded
      /\ t.fine = task[q].fine
  BY <1>1 DEF Task
<1>3. task' = [task EXCEPT ![q] = t]
  <2>1. task \in [Request -> Task]
    BY DEF TypeOK, Task
  <2> QED
    BY <2>1 DEF Begin, Task
<1> HIDE DEF t
<1> QED
  BY <1>2, <1>3 DEF Begin, Goto
-----------------------------------------------------------------------------
(* Types, and each handler in agreement with its place. *)

Steps == {"new", "check", "insert", "load", "put", "post", "remove", "drop",
          "switch", "save", "done"}

Words == [row : Row, said : {"nothing", "saved", "switched", "deleted"}]

LEMMA SilenceWord == ASSUME NoneAssumption PROVE Silence \in Words
BY NoneAssumption DEF Silence, Words

LEMMA RecInit == ASSUME NoneAssumption PROVE Init => RecipeInv
<1> SUFFICES ASSUME Init PROVE RecipeInv
  OBVIOUS
<1> DEFINE t == [op |-> "create", row |-> Silence.row, def |-> NoDefinition,
                 loaded |-> Blank, copy |-> Blank, fine |-> FALSE]
<1>1. /\ t \in Task /\ t.copy = Blank /\ t.loaded = Blank /\ ~t.fine
  BY SilenceWord, BlankFields DEF Task, Words, Operation
<1>2. task = [q \in Request |-> t]
  BY DEF Init
<1> HIDE DEF t
<1>3. TypeOK
  <2>1. row \in [Row -> Column]
    BY BlankFields DEF Init
  <2>2. flow \in [Workflow -> Flow]
    BY FlowFields DEF Init
  <2>3. task \in [Request -> Task]
    BY <1>1, <1>2
  <2>4. lastWord \in Words
    BY SilenceWord DEF Init
  <2> QED
    BY <2>1, <2>2, <2>3, <2>4 DEF Init, TypeOK, Flow, Task, Words
<1>4. HandlersAgree
  BY <1>1, <1>2 DEF Init, HandlersAgree, Handler, Fits, PastLoad
<1>5. IdsAreHanded
  BY <1>1, <1>2, BlankFields, NoneAssumption DEF Init, IdsAreHanded, Handed
<1>6. InProgress = {}
  BY DEF Init, InProgress
<1>7. AloneIsAlone /\ ToldHolds
  BY <1>6 DEF AloneIsAlone, Alone, ToldHolds
<1>8. UndisturbedIsTidy
  BY FlowFields DEF Init, UndisturbedIsTidy, DroppedLast, RunningAreRowed, NoneLeft, There
<1>9. LastWordHolds
  BY DEF Init, LastWordHolds, Silence
<1> QED
  BY <1>3, <1>4, <1>5, <1>7, <1>8, <1>9 DEF RecipeInv

\* The task a handler moves on with, and those of the others, agree if it does.
LEMMA MovesAgree ==
    ASSUME TypeOK, HandlersAgree, NEW q \in Request, NEW t \in Task, NEW step \in Steps,
           task' = [task EXCEPT ![q] = t], pc' = [pc EXCEPT ![q] = step], Handler(q)'
    PROVE  HandlersAgree' /\ task' \in [Request -> Task] /\ pc' \in [Request -> Steps]
<1>1. task \in [Request -> Task] /\ pc \in [Request -> Steps]
  BY DEF TypeOK, Task, Steps
<1>2. \A p \in Request : p # q => task'[p] = task[p] /\ pc'[p] = pc[p]
  BY <1>1
<1>3. \A p \in Request : p # q => Handler(p)'
  BY <1>2 DEF HandlersAgree, Handler, Fits
<1> QED
  BY <1>1, <1>3 DEF HandlersAgree

LEMMA EndsAgree ==
    ASSUME TypeOK, HandlersAgree, NEW q \in Request,
           UNCHANGED task, pc' = [pc EXCEPT ![q] = "done"]
    PROVE  HandlersAgree' /\ task' \in [Request -> Task] /\ pc' \in [Request -> Steps]
<1>1. Handler(q)'
  BY DEF Handler, Fits, TypeOK, BeforeLoad, PastLoad
<1>2. task[q] \in Task /\ task' = [task EXCEPT ![q] = task[q]]
  BY DEF TypeOK, Task
<1> QED
  BY <1>1, <1>2, MovesAgree DEF Steps

LEMMA HandlerStep ==
    ASSUME NoneAssumption, TypeOK, HandlersAgree, [Next]_vars
    PROVE  HandlersAgree' /\ task' \in [Request -> Task] /\ pc' \in [Request -> Steps]
<1> USE DEF Steps
<1>0. \A q \in Request : Handler(q)
  BY DEF HandlersAgree
<1>b. \A q \in Request : pc[q] \in Steps /\ task[q] \in Task
  BY DEF TypeOK, Task
<1>1. ASSUME NEW q \in Request, NEW o \in Operation, NEW r \in Row,
             NEW d \in Definition \cup {NoDefinition}, Begin(q, o, r, d)
      PROVE  HandlersAgree' /\ task' \in [Request -> Task] /\ pc' \in [Request -> Steps]
  <2>1. PICK t \in Task :
                 /\ task' = [task EXCEPT ![q] = t]
                 /\ pc' = [pc EXCEPT ![q] = IF t.op = "create" THEN "check" ELSE "load"]
                 /\ t.copy = task[q].copy /\ t.loaded = task[q].loaded
                 /\ t.fine = task[q].fine
    BY <1>1, BeginEffect
  <2>2. /\ task'[q] = t
        /\ pc'[q] = IF t.op = "create" THEN "check" ELSE "load"
    BY <2>1 DEF TypeOK
  <2>3. t.copy = Blank /\ t.loaded = Blank /\ ~t.fine
    <3>1. pc[q] = "new"
      BY <1>1 DEF Begin
    <3>2. task[q].copy = Blank /\ task[q].loaded = Blank /\ ~task[q].fine
      BY <1>0, <3>1 DEF Handler, Fits, BeforeLoad
    <3> QED
      BY <2>1, <3>2
  <2>4. Handler(q)'
    BY <2>2, <2>3 DEF Handler, Fits, BeforeLoad, PastLoad
  <2> QED
    BY <2>1, <2>4, MovesAgree
<1>2. ASSUME NEW q \in Request, CheckName(q)
      PROVE  HandlersAgree' /\ task' \in [Request -> Task] /\ pc' \in [Request -> Steps]
  <2>1. CASE pc' = [pc EXCEPT ![q] = "done"]
    BY <1>2, <2>1, EndsAgree DEF CheckName
  <2>2. CASE pc' = [pc EXCEPT ![q] = "insert"]
    <3>1. Handler(q)'
      BY <1>0, <1>2, <2>2 DEF CheckName, Handler, Fits, BeforeLoad, PastLoad, TypeOK
    <3>2. task' = [task EXCEPT ![q] = task[q]]
      BY <1>2 DEF CheckName, TypeOK
    <3> QED
      BY <1>b, <2>2, <3>1, <3>2, MovesAgree
  <2> QED
    BY <1>2, <2>1, <2>2 DEF CheckName, Finish, Goto
<1>3. ASSUME NEW q \in Request, NEW t \in Task, NEW step \in Steps, Moves(q, step, t),
             step \notin BeforeLoad, Fits(step, t)
      PROVE  HandlersAgree' /\ task' \in [Request -> Task] /\ pc' \in [Request -> Steps]
  <2>1. task'[q] = t /\ pc'[q] = step
    BY <1>3 DEF Moves, TypeOK
  <2>2. Handler(q)'
    BY <1>3, <2>1 DEF Handler
  <2> QED
    BY <1>3, <2>2, MovesAgree DEF Moves
<1>4. ASSUME NEW q \in Request, Stops(q)
      PROVE  HandlersAgree' /\ task' \in [Request -> Task] /\ pc' \in [Request -> Steps]
  BY <1>4, EndsAgree DEF Stops
<1>5. ASSUME NEW q \in Request, Insert(q)
      PROVE  HandlersAgree' /\ task' \in [Request -> Task] /\ pc' \in [Request -> Steps]
  <2>1. CASE Stops(q)
    BY <1>4, <2>1
  <2>2. ASSUME NEW t \in Task, Moves(q, "post", t), t.loaded = Blank,
               t.copy = Fresh(task[q].def), ~t.fine
        PROVE  HandlersAgree' /\ task' \in [Request -> Task] /\ pc' \in [Request -> Steps]
    <3>1. task[q].op = "create"
      BY <1>0, <1>5 DEF Insert, Handler, Fits
    <3>d. task[q].def \in Definition \cup {NoDefinition}
      BY <1>b DEF Task
    <3>2. t.op = "create" /\ t.copy.wid = NoWorkflow /\ t.copy.state = "live"
          /\ t.loaded.state = "none"
      BY <2>2, <3>1, <3>d, FreshFields, BlankFields DEF Moves
    <3> QED
      BY <1>3, <2>2, <3>2 DEF BeforeLoad, PastLoad, Fits
  <2> QED
    BY <1>0, <1>5, <2>1, <2>2, InsertEffect
<1>6. ASSUME NEW q \in Request, Load(q)
      PROVE  HandlersAgree' /\ task' \in [Request -> Task] /\ pc' \in [Request -> Steps]
  <2>1. CASE Stops(q)
    BY <1>4, <2>1
  <2>2. CASE ~Stops(q)
    <3>1. PICK t \in Task, step \in {"post", "put", "drop", "remove", "switch", "done"} :
                    /\ Moves(q, step, t)
                    /\ t.row = task[q].row /\ Live(t.row) /\ t.loaded = row[t.row]
                    /\ t.copy.state = t.loaded.state /\ t.copy.wid = t.loaded.wid
                    /\ ~t.fine
                    /\ step = "post" => t.op = "update" /\ t.copy.wid = NoWorkflow
                    /\ step = "put" => t.op = "update" /\ t.copy.wid # NoWorkflow
                    /\ step \in {"drop", "remove"} => t.op = "delete"
                    /\ step = "drop" => t.copy.wid = NoWorkflow
                    /\ step = "remove" => t.copy.wid # NoWorkflow
                    /\ step = "switch" => t.op \in {"activate", "deactivate"}
      BY <1>0, <1>6, <2>2, LoadEffect
    <3>l. task[q].op # "create"
      BY <1>0, <1>6, LoadEffect
    <3>2. t.op # "create" /\ t.loaded.state = "live"
      BY <3>1, <3>l DEF Moves, Live
    <3> QED
      BY <1>3, <3>1, <3>2 DEF BeforeLoad, PastLoad, Fits
  <2> QED
    BY <2>1, <2>2
<1>7. ASSUME NEW q \in Request, Put(q)
      PROVE  HandlersAgree' /\ task' \in [Request -> Task] /\ pc' \in [Request -> Steps]
  <2>1. PICK t \in Task, step \in {"save", "post"} :
           /\ Moves(q, step, t) /\ t.loaded = task[q].loaded
           /\ \/ t.copy = task[q].copy /\ step = "save"
              \/ t.copy = [task[q].copy EXCEPT !.wid = NoWorkflow] /\ ~t.fine
    <3>1. PICK t \in Task, step \in {"save", "post"} :
           /\ Moves(q, step, t) /\ t.loaded = task[q].loaded
           /\ \/ step = "save" /\ t.copy = task[q].copy
              \/ /\ step = "post" /\ t.copy = [task[q].copy EXCEPT !.wid = NoWorkflow]
                 /\ ~t.fine
              \/ step = "save" /\ t = task[q]
      <4>1. PICK t \in Task : \E step \in {"save", "post"} :
                 /\ Moves(q, step, t)
                 /\ t.row = task[q].row /\ t.loaded = task[q].loaded
                 /\ \/ /\ step = "save" /\ t.copy = task[q].copy /\ t.fine
                       /\ There(t.copy.wid)
                       /\ flow' = [flow EXCEPT ![t.copy.wid].def = t.copy.def]
                       /\ UNCHANGED <<late, causes>>
                    \/ /\ step = "post" /\ t.copy = [task[q].copy EXCEPT !.wid = NoWorkflow]
                       /\ ~There(task[q].copy.wid) /\ ~t.fine
                       /\ UNCHANGED <<flow, late, causes>>
                    \/ /\ step = "save" /\ t = task[q] /\ Fails(q) /\ UNCHANGED flow
        BY <1>0, <1>7, PutEffect, Zenon
      <4> QED
        BY <4>1
    <3> QED
      BY <3>1
  <2>2. /\ task[q].op = "update" /\ task[q].copy.state = "live"
        /\ task[q].loaded.state = "live" /\ task[q].copy \in Column
    BY <1>0, <1>b, <1>7 DEF Put, Handler, Fits, PastLoad, Task
  <2>3. t.op = "update" /\ t.copy.state = "live"
    BY <2>1, <2>2 DEF Moves, Column
  <2>4. step = "post" => t.copy.wid = NoWorkflow /\ ~t.fine
    BY <2>1, <2>2 DEF Column
  <2> QED
    BY <1>3, <2>1, <2>2, <2>3, <2>4 DEF BeforeLoad, PastLoad, Fits
<1>8. ASSUME NEW q \in Request, Post(q)
      PROVE  HandlersAgree' /\ task' \in [Request -> Task] /\ pc' \in [Request -> Steps]
  <2>1. PICK t \in Task :
           /\ Moves(q, "save", t) /\ t.loaded = task[q].loaded
           /\ \/ t.copy = task[q].copy
              \/ \E w \in Workflow : t.copy = [task[q].copy EXCEPT !.wid = w]
    BY <1>0, <1>8, PostEffect
  <2>2. /\ task[q].op \in {"create", "update"} /\ task[q].copy.state = "live"
        /\ task[q].loaded.state = IF task[q].op = "create" THEN "none" ELSE "live"
        /\ task[q].copy \in Column
    BY <1>0, <1>b, <1>8 DEF Post, Handler, Fits, PastLoad, Task
  <2>3. t.op = task[q].op /\ t.copy.state = "live"
    BY <2>1, <2>2 DEF Moves, Column
  <2> QED
    BY <1>3, <2>1, <2>2, <2>3 DEF BeforeLoad, PastLoad, Fits
<1>9. ASSUME NEW q \in Request, Remove(q)
      PROVE  HandlersAgree' /\ task' \in [Request -> Task] /\ pc' \in [Request -> Steps]
  <2>1. PICK t \in Task : Moves(q, "drop", t) /\ t.loaded = task[q].loaded
                          /\ t.copy = task[q].copy
    BY <1>0, <1>9, RemoveEffect
  <2>2. /\ task[q].op = "delete" /\ task[q].copy.state = "live"
        /\ task[q].loaded.state = "live" /\ task[q].copy.wid = task[q].loaded.wid
    BY <1>0, <1>9 DEF Remove, Handler, Fits, PastLoad
  <2> QED
    BY <1>3, <2>1, <2>2 DEF BeforeLoad, PastLoad, Fits, Moves
<1>10. ASSUME NEW q \in Request, Switch(q)
       PROVE  HandlersAgree' /\ task' \in [Request -> Task] /\ pc' \in [Request -> Steps]
  <2>1. CASE Stops(q)
    BY <1>4, <2>1
  <2>2. CASE ~Stops(q)
    <3>1. PICK t \in Task :
                    /\ Moves(q, "save", t) /\ t.loaded = task[q].loaded
                    /\ t.copy = [task[q].copy EXCEPT !.active = (t.op = "activate")]
      BY <1>0, <1>10, <2>2, SwitchEffect
    <3>2. /\ task[q].op \in {"activate", "deactivate"} /\ task[q].copy.state = "live"
          /\ task[q].loaded.state = "live" /\ task[q].copy.wid = task[q].loaded.wid
          /\ task[q].copy \in Column
      BY <1>0, <1>b, <1>10 DEF Switch, Handler, Fits, PastLoad, Task
    <3>3. t.op = task[q].op /\ t.copy.state = "live" /\ t.copy.wid = task[q].copy.wid
      BY <3>1, <3>2 DEF Moves, Column
    <3> QED
      BY <1>3, <3>1, <3>2, <3>3 DEF BeforeLoad, PastLoad, Fits
  <2> QED
    BY <2>1, <2>2
<1>11. ASSUME NEW q \in Request, Save(q) \/ Drop(q) \/ Lose(q)
       PROVE  HandlersAgree' /\ task' \in [Request -> Task] /\ pc' \in [Request -> Steps]
  <2>1. pc' = [pc EXCEPT ![q] = "done"] /\ UNCHANGED task
    BY <1>11, SaveEffect, DropEffect DEF Lose, Finish
  <2> QED
    BY <2>1, EndsAgree
<1>12. CASE UNCHANGED <<pc, task>>
  BY <1>12 DEF HandlersAgree, Handler, TypeOK, Task
<1>13. (\E q \in Request : TakeEffect(q)) \/ (\E w \in Workflow : EditorRemoves(w))
        \/ UNCHANGED vars => UNCHANGED <<pc, task>>
  BY DEF TakeEffect, EditorRemoves, vars
<1> QED
  BY <1>1, <1>2, <1>5, <1>6, <1>7, <1>8, <1>9, <1>10, <1>11, <1>12, <1>13 DEF Next, Step
-----------------------------------------------------------------------------
(* The three ways a handler goes on: it reads, it calls n8n, it ends. *)

\* n8n obeyed q's call, and it is as q's new task t says.
Tells(q, step, t) ==
    /\ t.fine /\ UNCHANGED <<late, causes>>
    /\ \/ t.copy.wid = task[q].copy.wid
       \/ task[q].copy.wid = NoWorkflow /\ step = "save" /\ t.op \in {"create", "update"}
    /\ \A w \in Workflow : There(w)' => There(w) \/ w = t.copy.wid
    /\ \A w \in Workflow : There(w)' /\ flow'[w].active =>
          (There(w) /\ flow[w].active) \/ (w = t.copy.wid /\ task[q].copy.wid = w)
    /\ step \in {"save", "drop"}
    /\ step = "save" /\ t.op \in {"create", "update"} =>
          There(t.copy.wid)' /\ flow'[t.copy.wid].def = t.copy.def
    /\ step = "save" /\ t.op \notin {"create", "update"} =>
          There(t.copy.wid)' /\ flow'[t.copy.wid].active = t.copy.active
    /\ step = "drop" => ~There(t.copy.wid)'

\* It did not, or the workflow was not there.
TellsNot(q, step, t) ==
    /\ UNCHANGED flow
    /\ t.fine => step = "drop" /\ t.copy.wid \in kept'
    /\ \/ Fails(q) /\ t.copy.wid = task[q].copy.wid /\ step # "post"
       \/ /\ UNCHANGED <<late, causes>>
          /\ \/ step = "done" /\ t.copy.wid = task[q].copy.wid
             \/ step = "post" /\ t.copy.wid = NoWorkflow /\ ~There(task[q].copy.wid)

Calls(q, step, t) ==
    /\ Moves(q, step, t)
    /\ t.row = task[q].row /\ t.loaded = task[q].loaded
    /\ Tells(q, step, t) \/ TellsNot(q, step, t)

\* q has read its row, or picked one that is blank.
Reads(q, step, t) ==
    /\ Moves(q, step, t) /\ UNCHANGED <<flow, late, causes>>
    /\ row[t.row] = t.loaded /\ t.copy.wid = t.loaded.wid /\ ~t.fine
    /\ step = "done" => Live(t.row)
    /\ step = "drop" => t.copy.wid = NoWorkflow

LEMMA PutCalls ==
    ASSUME TypeOK, NEW q \in Request, Handler(q), Put(q)
    PROVE  \E t \in Task, step \in {"save", "post"} : Calls(q, step, t)
<1>1. PICK t \in Task : \E step \in {"save", "post"} :
                 /\ Moves(q, step, t)
                 /\ t.row = task[q].row /\ t.loaded = task[q].loaded
                 /\ \/ /\ step = "save" /\ t.copy = task[q].copy /\ t.fine
                       /\ There(t.copy.wid)
                       /\ flow' = [flow EXCEPT ![t.copy.wid].def = t.copy.def]
                       /\ UNCHANGED <<late, causes>>
                    \/ /\ step = "post" /\ t.copy = [task[q].copy EXCEPT !.wid = NoWorkflow]
                       /\ ~There(task[q].copy.wid) /\ ~t.fine
                       /\ UNCHANGED <<flow, late, causes>>
                    \/ /\ step = "save" /\ t = task[q] /\ Fails(q) /\ UNCHANGED flow
  BY PutEffect, Zenon
<1>2. PICK step \in {"save", "post"} :
                 /\ Moves(q, step, t)
                 /\ t.row = task[q].row /\ t.loaded = task[q].loaded
                 /\ \/ /\ step = "save" /\ t.copy = task[q].copy /\ t.fine
                       /\ There(t.copy.wid)
                       /\ flow' = [flow EXCEPT ![t.copy.wid].def = t.copy.def]
                       /\ UNCHANGED <<late, causes>>
                    \/ /\ step = "post" /\ t.copy = [task[q].copy EXCEPT !.wid = NoWorkflow]
                       /\ ~There(task[q].copy.wid) /\ ~t.fine
                       /\ UNCHANGED <<flow, late, causes>>
                    \/ /\ step = "save" /\ t = task[q] /\ Fails(q) /\ UNCHANGED flow
  BY <1>1
<1>3. task[q].op = "update" /\ ~task[q].fine /\ task[q].copy \in Column
  BY DEF Put, Handler, Fits, TypeOK
<1>4. flow \in [Workflow -> Flow]
  BY DEF TypeOK, Flow
<1>5. t.op = "update"
  BY <1>2, <1>3 DEF Moves
<1>6. ASSUME step = "save", t.copy = task[q].copy, t.fine, There(t.copy.wid),
             flow' = [flow EXCEPT ![t.copy.wid].def = t.copy.def],
             UNCHANGED <<late, causes>>
      PROVE  Tells(q, step, t)
  <2>1. t.copy.wid \in Workflow
    BY <1>6 DEF There
  <2>2. /\ \A w \in Workflow : There(w)' <=> There(w)
        /\ \A w \in Workflow : flow'[w].active = flow[w].active
        /\ flow'[t.copy.wid].def = t.copy.def
    BY <1>4, <1>6, <2>1 DEF There, Flow
  <2> QED
    BY <1>5, <1>6, <2>1, <2>2 DEF Tells
<1>7. ASSUME step = "post", t.copy = [task[q].copy EXCEPT !.wid = NoWorkflow],
             ~There(task[q].copy.wid), ~t.fine, UNCHANGED <<flow, late, causes>>
      PROVE  TellsNot(q, step, t)
  <2>1. t.copy.wid = NoWorkflow
    BY <1>3, <1>7 DEF Column
  <2> QED
    BY <1>7, <2>1 DEF TellsNot
<1>8. ASSUME step = "save", t = task[q], Fails(q), UNCHANGED flow
      PROVE  TellsNot(q, step, t)
  BY <1>3, <1>8 DEF TellsNot
<1>9. Calls(q, step, t)
  BY <1>2, <1>6, <1>7, <1>8 DEF Calls
<1> QED
  BY <1>9

LEMMA PostCalls ==
    ASSUME TypeOK, NEW q \in Request, Handler(q), Post(q)
    PROVE  \E t \in Task : Calls(q, "save", t)
<1>1. PICK t \in Task :
                 /\ Moves(q, "save", t)
                 /\ t.row = task[q].row /\ t.loaded = task[q].loaded
                 /\ \/ \E w \in Workflow :
                          /\ t.copy = [task[q].copy EXCEPT !.wid = w] /\ t.fine
                          /\ flow[w] = Absent
                          /\ flow' = [flow EXCEPT ![w] = Created(t.copy.def)]
                          /\ UNCHANGED <<late, causes>>
                    \/ t = task[q] /\ ~t.fine /\ Fails(q) /\ UNCHANGED flow
  BY PostEffect, Zenon
<1>3. /\ task[q].op \in {"create", "update"} /\ task[q].copy \in Column
      /\ task[q].copy.wid = NoWorkflow /\ t.copy \in Column
  BY DEF Post, Handler, Fits, TypeOK, Task
<1>4. flow \in [Workflow -> Flow]
  BY DEF TypeOK, Flow
<1>5. t.op \in {"create", "update"}
  BY <1>1, <1>3 DEF Moves
<1>6. ASSUME NEW w \in Workflow, t.copy = [task[q].copy EXCEPT !.wid = w], t.fine,
             flow' = [flow EXCEPT ![w] = Created(t.copy.def)],
             UNCHANGED <<late, causes>>
      PROVE  Tells(q, "save", t)
  <2>1. t.copy.wid = w
    BY <1>3, <1>6 DEF Column
  <2>2. t.copy.def \in Definition \cup {NoDefinition}
    BY <1>3, ColumnFields
  <2>3. PICK f \in Flow : /\ f = Created(t.copy.def) /\ f.state = "there"
                          /\ f.def = t.copy.def /\ f.active = FALSE
    BY <2>2, FlowFields
  <2>4. /\ flow'[w] = f /\ \A v \in Workflow : v # w => flow'[v] = flow[v]
    BY <1>4, <1>6, <2>3
  <2> QED
    BY <1>3, <1>5, <1>6, <2>1, <2>3, <2>4 DEF Tells, There
<1>8. ASSUME t = task[q], ~t.fine, Fails(q), UNCHANGED flow
      PROVE  TellsNot(q, "save", t)
  BY <1>8 DEF TellsNot
<1>9. Calls(q, "save", t)
  BY <1>1, <1>6, <1>8 DEF Calls
<1> QED
  BY <1>9

LEMMA RemoveCalls ==
    ASSUME TypeOK, NEW q \in Request, Handler(q), Remove(q)
    PROVE  \E t \in Task : Calls(q, "drop", t)
<1>1. PICK t \in Task :
                 /\ Moves(q, "drop", t)
                 /\ t.row = task[q].row /\ t.loaded = task[q].loaded
                 /\ t.copy = task[q].copy
                 /\ \/ /\ t.fine
                       /\ IF There(t.copy.wid)
                          THEN flow' = [flow EXCEPT ![t.copy.wid].state = "gone"]
                          ELSE UNCHANGED flow
                       /\ UNCHANGED <<late, causes>>
                    \/ /\ t.fine => t.copy.wid \in kept'
                       /\ Fails(q) /\ UNCHANGED flow
  BY RemoveEffect, Zenon
<1>4. flow \in [Workflow -> Flow]
  BY DEF TypeOK, Flow
<1>6. ASSUME t.fine, UNCHANGED <<late, causes>>,
             IF There(t.copy.wid) THEN flow' = [flow EXCEPT ![t.copy.wid].state = "gone"]
                                  ELSE UNCHANGED flow
      PROVE  Tells(q, "drop", t)
  <2>1. /\ ~There(t.copy.wid)'
        /\ \A w \in Workflow : There(w)' => There(w)
        /\ \A w \in Workflow : flow'[w].active = flow[w].active
    BY <1>4, <1>6 DEF There, Flow
  <2> QED
    BY <1>1, <1>6, <2>1 DEF Tells
<1>8. ASSUME t.fine => t.copy.wid \in kept', Fails(q), UNCHANGED flow
      PROVE  TellsNot(q, "drop", t)
  BY <1>1, <1>8 DEF TellsNot
<1>9. Calls(q, "drop", t)
  BY <1>1, <1>6, <1>8 DEF Calls
<1> QED
  BY <1>9

LEMMA SwitchCalls ==
    ASSUME TypeOK, NEW q \in Request, Handler(q), Switch(q)
    PROVE  \E t \in Task, step \in {"save", "done"} : Calls(q, step, t)
<1>0. /\ task[q].op \in {"activate", "deactivate"} /\ ~task[q].fine
      /\ task[q] \in Task /\ task[q].copy \in Column
  BY DEF Switch, Handler, Fits, TypeOK, Task
<1>1. ASSUME NEW t \in Task, Moves(q, "save", t),
             t.row = task[q].row, t.loaded = task[q].loaded,
             t.fine, There(t.copy.wid),
             t.copy = [task[q].copy EXCEPT !.active = (t.op = "activate")],
             flow' = [flow EXCEPT ![t.copy.wid].active = t.copy.active],
             UNCHANGED <<late, causes>>
      PROVE  Calls(q, "save", t)
  <2>1. t.copy.wid = task[q].copy.wid
    BY <1>0, <1>1 DEF Column
  <2>2. flow \in [Workflow -> Flow] /\ t.copy.wid \in Workflow
    BY <1>1 DEF TypeOK, Flow, There
  <2>3. /\ \A w \in Workflow : There(w)' <=> There(w)
        /\ \A w \in Workflow : w # t.copy.wid => flow'[w] = flow[w]
        /\ flow'[t.copy.wid].active = t.copy.active
    BY <1>1, <2>2 DEF There, Flow
  <2>4. t.op \notin {"create", "update"}
    BY <1>0, <1>1 DEF Moves
  <2>5. Tells(q, "save", t)
    BY <1>1, <2>1, <2>2, <2>3, <2>4 DEF Tells
  <2> QED
    BY <1>1, <2>5 DEF Calls
<1>2. ASSUME Stops(q), UNCHANGED <<late, causes>> \/ Fails(q)
      PROVE  Calls(q, "done", task[q])
  <2>1. Moves(q, "done", task[q])
    BY <1>0, <1>2 DEF Stops, Moves, TypeOK
  <2>2. TellsNot(q, "done", task[q])
    BY <1>0, <1>2 DEF Stops, TellsNot
  <2> QED
    BY <2>1, <2>2 DEF Calls
<1>3. \/ \E t \in Task :
                    /\ Moves(q, "save", t)
                    /\ t.row = task[q].row /\ t.loaded = task[q].loaded
                    /\ t.fine /\ There(t.copy.wid)
                    /\ t.copy = [task[q].copy EXCEPT !.active = (t.op = "activate")]
                    /\ flow' = [flow EXCEPT ![t.copy.wid].active = t.copy.active]
                    /\ UNCHANGED <<late, causes>>
      \/ Stops(q) /\ UNCHANGED <<late, causes>>
      \/ Stops(q) /\ Fails(q)
  BY SwitchEffect, Zenon
<1> QED
  BY <1>0, <1>1, <1>2, <1>3, Zenon

LEMMA CallEffect ==
    ASSUME TypeOK, NEW q \in Request, Handler(q),
           Put(q) \/ Post(q) \/ Remove(q) \/ Switch(q)
    PROVE  /\ pc[q] \in {"put", "post", "remove", "switch"} /\ ~task[q].fine
           /\ lastWord' = Silence /\ UNCHANGED row
           /\ \E t \in Task, step \in {"save", "post", "drop", "done"} : Calls(q, step, t)
<1>1. pc[q] \in {"put", "post", "remove", "switch"} /\ ~task[q].fine
  BY DEF Put, Post, Remove, Switch, Handler, Fits
<1>2. lastWord' = Silence /\ UNCHANGED row
  BY PutEffect, PostEffect, RemoveEffect, SwitchEffect
<1> QED
  BY <1>1, <1>2, PutCalls, PostCalls, RemoveCalls, SwitchCalls

LEMMA ReadEffect ==
    ASSUME TypeOK, NEW q \in Request, Handler(q), Insert(q) \/ Load(q)
    PROVE  /\ pc[q] \in {"insert", "load"} /\ lastWord' = Silence
           /\ UNCHANGED <<row, flow, late, causes>>
           /\ \/ Stops(q)
              \/ \E t \in Task, step \in {"post", "put", "drop", "remove", "switch", "done"} :
                    Reads(q, step, t)
<1>1. CASE Insert(q)
  <2>1. ASSUME NEW t \in Task, Moves(q, "post", t), row[t.row] = Blank, t.loaded = Blank,
               t.copy = Fresh(task[q].def), ~t.fine
        PROVE  Reads(q, "post", t)
    <3>1. task[q].def \in Definition \cup {NoDefinition}
      BY DEF TypeOK
    <3>2. t.copy.wid = NoWorkflow
      BY <2>1, <3>1, FreshFields
    <3> QED
      BY <1>1, <2>1, <3>2, BlankFields, InsertEffect DEF Reads
  <2> QED
    BY <1>1, <2>1, InsertEffect
<1>2. CASE Load(q)
  <2>1. UNCHANGED <<row, flow, late, causes>> /\ pc[q] = "load" /\ lastWord' = Silence
    BY <1>2, LoadEffect
  <2>2. ASSUME ~Stops(q)
        PROVE  \E t \in Task, step \in {"post", "put", "drop", "remove", "switch", "done"} :
                  Reads(q, step, t)
    <3>1. PICK t \in Task, step \in {"post", "put", "drop", "remove", "switch", "done"} :
                    /\ Moves(q, step, t)
                    /\ t.row = task[q].row /\ Live(t.row) /\ t.loaded = row[t.row]
                    /\ t.copy.state = t.loaded.state /\ t.copy.wid = t.loaded.wid
                    /\ ~t.fine
                    /\ step = "post" => t.op = "update" /\ t.copy.wid = NoWorkflow
                    /\ step = "put" => t.op = "update" /\ t.copy.wid # NoWorkflow
                    /\ step \in {"drop", "remove"} => t.op = "delete"
                    /\ step = "drop" => t.copy.wid = NoWorkflow
                    /\ step = "remove" => t.copy.wid # NoWorkflow
                    /\ step = "switch" => t.op \in {"activate", "deactivate"}
      BY <1>2, <2>2, LoadEffect
    <3>2. Reads(q, step, t)
      BY <2>1, <3>1 DEF Reads
    <3> QED
      BY <3>2
  <2> QED
    BY <2>1, <2>2
<1> QED
  BY <1>1, <1>2
LEMMA Moved ==
    ASSUME TypeOK, NEW q \in Request, NEW t, NEW step, Moves(q, step, t)
    PROVE  /\ task'[q] = t /\ pc'[q] = step
           /\ \A p \in Request : p # q => task'[p] = task[p] /\ pc'[p] = pc[p]
BY DEF Moves, TypeOK

LEMMA RowTypes ==
    ASSUME TypeOK, NEW q \in Request, Save(q) \/ Drop(q)
    PROVE  /\ row' \in [Row -> Column]
           /\ \A r \in Row : r # task[q].row => row'[r] = row[r]
           /\ row' = row \/ row'[task[q].row] = Written(q)
              \/ row'[task[q].row] = [row[task[q].row] EXCEPT !.state = "gone"]
<1>0. row \in [Row -> Column] /\ task[q].row \in Row
  BY DEF TypeOK
<1>1. CASE row' = row
  BY <1>0, <1>1
<1>2. CASE row' = [row EXCEPT ![task[q].row] = Written(q)]
  BY <1>0, <1>2, WrittenFields
<1>3. CASE row' = [row EXCEPT ![task[q].row].state = "gone"]
  <2>1. PICK c \in Column : c = [row[task[q].row] EXCEPT !.state = "gone"]
    BY <1>0, ColumnFields
  <2> QED
    BY <1>0, <1>3, <2>1
<1> QED
  BY <1>1, <1>2, <1>3, SaveEffect, DropEffect

LEMMA IdsStep ==
    ASSUME NoneAssumption, TypeOK, HandlersAgree, IdsAreHanded, [Next]_vars
    PROVE  IdsAreHanded'
<1>0. \A q \in Request : Handler(q)
  BY DEF HandlersAgree
<1>1. \A w : Handed(w) => Handed(w)'
  BY FlowStep DEF FlowGrows, Handed
<1>f. ASSUME UNCHANGED <<row, task>> PROVE IdsAreHanded'
  BY <1>1, <1>f DEF IdsAreHanded
<1>m. ASSUME NEW q \in Request, NEW t \in Task, task' = [task EXCEPT ![q] = t],
             UNCHANGED row, \A w : w = t.copy.wid => Handed(w)'
      PROVE  IdsAreHanded'
  <2>1. task'[q] = t /\ \A p \in Request : p # q => task'[p] = task[p]
    BY <1>m DEF TypeOK
  <2> QED
    BY <1>1, <1>m, <2>1 DEF IdsAreHanded
<1>2. ASSUME NEW q \in Request, NEW o \in Operation, NEW r \in Row,
             NEW d \in Definition \cup {NoDefinition}, Begin(q, o, r, d)
      PROVE  IdsAreHanded'
  <2>1. PICK t \in Task : task' = [task EXCEPT ![q] = t] /\ t.copy = task[q].copy
    BY <1>2, BeginEffect
  <2>2. UNCHANGED row
    BY <1>2 DEF Begin
  <2> QED
    BY <1>1, <1>m, <2>1, <2>2 DEF IdsAreHanded
<1>3. ASSUME NEW q \in Request, Insert(q) \/ Load(q) PROVE IdsAreHanded'
  <2>1. UNCHANGED row
    BY <1>0, <1>3, ReadEffect
  <2>2. CASE Stops(q)
    BY <1>f, <2>2 DEF Stops
  <2>3. ASSUME NEW t \in Task, NEW step, Reads(q, step, t) PROVE IdsAreHanded'
    <3>1. Handed(t.copy.wid)
      BY <2>3 DEF Reads, IdsAreHanded, Task
    <3> QED
      BY <1>1, <1>m, <2>1, <2>3, <3>1 DEF Reads, Moves
  <2> QED
    BY <1>0, <1>3, <2>2, <2>3, ReadEffect
<1>4. ASSUME NEW q \in Request, Put(q) \/ Post(q) \/ Remove(q) \/ Switch(q) PROVE IdsAreHanded'
  <2>1. PICK t \in Task, step \in {"save", "post", "drop", "done"} : Calls(q, step, t)
    BY <1>0, <1>4, CallEffect
  <2>2. ASSUME NEW w, w = t.copy.wid PROVE Handed(w)'
    <3>1. CASE w = task[q].copy.wid
      BY <1>1, <3>1 DEF IdsAreHanded
    <3>2. CASE w = NoWorkflow
      BY <3>2, NoneAssumption DEF Handed
    <3>3. CASE There(w)'
      BY <3>3 DEF There, Handed
    <3> QED
      BY <2>1, <2>2, <3>1, <3>2, <3>3 DEF Calls, Tells, TellsNot
  <2> QED
    BY <1>0, <1>4, <1>m, <2>1, <2>2, CallEffect DEF Calls, Moves
<1>5. ASSUME NEW q \in Request, Save(q) \/ Drop(q) PROVE IdsAreHanded'
  <2>1. UNCHANGED task /\ task[q].row \in Row /\ row[task[q].row] \in Column
    BY <1>5, SaveEffect, DropEffect DEF TypeOK
  <2>2. \A r \in Row : \/ row'[r].wid = row[r].wid
                       \/ row'[r].wid = task[q].copy.wid
    <3>1. [row[task[q].row] EXCEPT !.state = "gone"].wid = row[task[q].row].wid
      BY <2>1 DEF Column
    <3>2. Written(q).wid \in {row[task[q].row].wid, task[q].copy.wid}
      BY WrittenFields
    <3>3. row'[task[q].row].wid \in {row[task[q].row].wid, task[q].copy.wid}
      <4>1. CASE row' = row
        BY <4>1
      <4>2. CASE row'[task[q].row] = Written(q)
        BY <3>2, <4>2
      <4>3. CASE row'[task[q].row] = [row[task[q].row] EXCEPT !.state = "gone"]
        BY <3>1, <4>3
      <4> QED
        BY <1>5, <4>1, <4>2, <4>3, RowTypes
    <3>4. \A r \in Row : r # task[q].row => row'[r] = row[r]
      BY <1>5, RowTypes
    <3> QED
      BY <3>3, <3>4
  <2> QED
    BY <1>1, <2>1, <2>2 DEF IdsAreHanded
<1>6. ASSUME NEW q \in Request, CheckName(q) \/ Lose(q) \/ TakeEffect(q) PROVE IdsAreHanded'
  BY <1>6, <1>f DEF CheckName, Lose, TakeEffect
<1>7. ASSUME NEW w \in Workflow, EditorRemoves(w) PROVE IdsAreHanded'
  BY <1>7, <1>f DEF EditorRemoves
<1>8. CASE UNCHANGED vars
  BY <1>8, <1>f DEF vars
<1> QED
  BY <1>2, <1>3, <1>4, <1>5, <1>6, <1>7, <1>8 DEF Next, Step

\* Only a commit says a word.
LEMMA WordStep ==
    ASSUME TypeOK, HandlersAgree, [Next]_vars,
           \A q \in Request : ~(Save(q) \/ Drop(q))
    PROVE  UNCHANGED vars \/ lastWord' = Silence
<1>0. \A q \in Request : Handler(q)
  BY DEF HandlersAgree
<1>1. ASSUME NEW q \in Request, Insert(q) \/ Load(q) PROVE lastWord' = Silence
  BY <1>0, <1>1, ReadEffect
<1>2. ASSUME NEW q \in Request, Put(q) \/ Post(q) \/ Remove(q) \/ Switch(q)
      PROVE  lastWord' = Silence
  BY <1>0, <1>2, CallEffect
<1>3. ASSUME NEW q \in Request, CheckName(q) \/ Lose(q) \/ TakeEffect(q)
      PROVE  lastWord' = Silence
  BY <1>3 DEF CheckName, Lose, TakeEffect, Finish, Goto, Disturbed
<1>4. ASSUME NEW q \in Request, NEW o \in Operation, NEW r \in Row,
             NEW d \in Definition \cup {NoDefinition}, Begin(q, o, r, d)
      PROVE  lastWord' = Silence
  BY <1>4 DEF Begin, Goto
<1>5. ASSUME NEW w \in Workflow, EditorRemoves(w) PROVE lastWord' = Silence
  BY <1>5 DEF EditorRemoves, Disturbed
<1> QED
  BY <1>1, <1>2, <1>3, <1>4, <1>5 DEF Next, Step

\* Only a deletion is refused for good.
LEMMA KeptStays ==
    ASSUME [Next]_vars, \A q \in Request : ~Remove(q) PROVE UNCHANGED kept
<1>1. ASSUME NEW q \in Request, CheckName(q) \/ Insert(q) \/ Load(q) \/ Put(q) PROVE UNCHANGED kept
  BY <1>1 DEF CheckName, Insert, Load, Put
<1>2. ASSUME NEW q \in Request, Post(q) \/ Drop(q) \/ Switch(q) PROVE UNCHANGED kept
  BY <1>2 DEF Post, Drop, Switch
<1>3. ASSUME NEW q \in Request, Save(q) \/ Lose(q) \/ TakeEffect(q) PROVE UNCHANGED kept
  BY <1>3 DEF Save, Lose, TakeEffect
<1>4. ASSUME NEW q \in Request, NEW o \in Operation, NEW r \in Row,
             NEW d \in Definition \cup {NoDefinition}, Begin(q, o, r, d)
      PROVE  UNCHANGED kept
  BY <1>4 DEF Begin
<1>5. ASSUME NEW w \in Workflow, EditorRemoves(w) PROVE UNCHANGED kept
  BY <1>5 DEF EditorRemoves
<1> QED
  BY <1>1, <1>2, <1>3, <1>4, <1>5 DEF Next, Step, vars

LEMMA TypeStep ==
    ASSUME NoneAssumption, TypeOK, HandlersAgree, [Next]_vars PROVE TypeOK'
<1>0. \A q \in Request : Handler(q)
  BY DEF HandlersAgree
<1>1. task' \in [Request -> Task] /\ pc' \in [Request -> Steps]
  BY HandlerStep
<1>2. flow' \in [Workflow -> Flow]
  BY FlowStep DEF FlowGrows
<1>3. row' \in [Row -> Column]
  <2>1. ASSUME NEW q \in Request, Save(q) \/ Drop(q) PROVE row' \in [Row -> Column]
    BY <2>1, RowTypes
  <2>2. ASSUME NEW q \in Request, Step(q), ~(Save(q) \/ Drop(q)) PROVE UNCHANGED row
    BY <2>2 DEF Step, CheckName, Insert, Load, Put, Post, Remove, Switch
  <2>3. ASSUME NEW q \in Request, NEW o \in Operation, NEW r \in Row,
               NEW d \in Definition \cup {NoDefinition}, Begin(q, o, r, d)
        PROVE  UNCHANGED row
    BY <2>3 DEF Begin
  <2>4. ASSUME NEW q \in Request, Lose(q) \/ TakeEffect(q) PROVE UNCHANGED row
    BY <2>4 DEF Lose, TakeEffect
  <2>5. ASSUME NEW w \in Workflow, EditorRemoves(w) PROVE UNCHANGED row
    BY <2>5 DEF EditorRemoves
  <2>6. UNCHANGED row => row' \in [Row -> Column]
    BY DEF TypeOK
  <2> QED
    BY <2>1, <2>2, <2>3, <2>4, <2>5, <2>6 DEF Next, vars
<1>s. Silence \in Words
  BY SilenceWord
<1>w. lastWord \in Words /\ \A q \in Request : task[q].row \in Row
  BY DEF TypeOK, Words
<1>4. lastWord' \in Words
  <2>1. ASSUME NEW q \in Request, Save(q) PROVE lastWord' \in Words
    BY <1>s, <1>w, <2>1, SaveEffect DEF Words
  <2>2. ASSUME NEW q \in Request, Drop(q) PROVE lastWord' \in Words
    <3>1. [row |-> task[q].row, said |-> "deleted"] \in Words
      BY <1>w DEF Words
    <3> QED
      BY <1>s, <2>2, <3>1, DropEffect
  <2>3. (\A q \in Request : ~(Save(q) \/ Drop(q))) => lastWord' \in {Silence, lastWord}
    BY WordStep DEF vars
  <2> QED
    BY <1>s, <1>w, <2>1, <2>2, <2>3
<1>5. alone' \in [Request -> BOOLEAN]
  <2>1. UNCHANGED alone \/ \E P \in [Request -> BOOLEAN] : alone' = P
    <3>1. ASSUME NEW q \in Request, NEW o \in Operation, NEW r \in Row,
                 NEW d \in Definition \cup {NoDefinition}, Begin(q, o, r, d)
          PROVE  alone' \in [Request -> BOOLEAN]
      BY <3>1 DEF Begin
    <3>2. ASSUME Disturbed PROVE alone' \in [Request -> BOOLEAN]
      BY <3>2 DEF Disturbed
    <3>3. ASSUME NEW q \in Request, Step(q) \/ Lose(q) PROVE UNCHANGED alone
      BY <3>3 DEF Step, Lose, CheckName, Insert, Load, Put, Post, Remove, Drop, Switch, Save
    <3> QED
      BY <3>1, <3>2, <3>3 DEF Next, TakeEffect, EditorRemoves, vars
  <2> QED
    BY <2>1 DEF TypeOK
<1>6. late' \subseteq Request /\ causes' \subseteq {"overlap", "refused", "unanswered", "lost"}
  <2> USE DEF TypeOK
  <2>1. ASSUME NEW q \in Request, Put(q) \/ Post(q) \/ Remove(q) \/ Switch(q)
        PROVE  late' \subseteq Request
               /\ causes' \subseteq {"overlap", "refused", "unanswered", "lost"}
    <3>1. UNCHANGED <<late, causes>> \/ Fails(q)
      BY <1>0, <2>1, CallEffect DEF Calls, Tells, TellsNot
    <3> QED
      BY <3>1 DEF Fails
  <2>2. ASSUME NEW q \in Request, Insert(q) \/ Load(q) \/ CheckName(q) \/ Save(q) \/ Drop(q)
        PROVE  UNCHANGED <<late, causes>>
    BY <2>2 DEF Insert, Load, CheckName, Save, Drop
  <2>3. ASSUME NEW q \in Request, Lose(q) \/ TakeEffect(q)
        PROVE  late' \subseteq Request
               /\ causes' \subseteq {"overlap", "refused", "unanswered", "lost"}
    BY <2>3 DEF Lose, TakeEffect
  <2>4. ASSUME NEW q \in Request, NEW o \in Operation, NEW r \in Row,
               NEW d \in Definition \cup {NoDefinition}, Begin(q, o, r, d)
        PROVE  late' \subseteq Request
               /\ causes' \subseteq {"overlap", "refused", "unanswered", "lost"}
    BY <2>4 DEF Begin
  <2>5. ASSUME NEW w \in Workflow, EditorRemoves(w) PROVE UNCHANGED <<late, causes>>
    BY <2>5 DEF EditorRemoves
  <2> QED
    BY <2>1, <2>2, <2>3, <2>4, <2>5 DEF Next, Step, vars
<1>7. kept' \subseteq Workflow
  <2>1. ASSUME NEW q \in Request, Remove(q) PROVE kept' \subseteq Workflow
    <3>1. task[q].copy.wid \in Workflow
      BY <1>0, <2>1, ColumnFields DEF Remove, Handler, Fits, TypeOK
    <3>2. kept' \in {kept, kept \cup {task[q].copy.wid}}
      BY <1>0, <2>1, RemoveEffect
    <3> QED
      BY <3>1, <3>2 DEF TypeOK
  <2> QED
    BY <2>1, KeptStays DEF TypeOK
<1> QED
  BY <1>1, <1>2, <1>3, <1>4, <1>5, <1>6, <1>7 DEF TypeOK, Task, Flow, Words, Steps
-----------------------------------------------------------------------------
(* A request that is alone stays the only one in progress. *)

\* What has gone wrong is never forgotten, and no request is alone again.
LEMMA HistoryGrows ==
    ASSUME TypeOK, HandlersAgree, [Next]_vars
    PROVE  causes \subseteq causes' /\ \A q \in Request : alone'[q] => alone[q]
<1>1. ASSUME NEW q \in Request, NEW o \in Operation, NEW r \in Row,
             NEW d \in Definition \cup {NoDefinition}, Begin(q, o, r, d)
      PROVE  causes \subseteq causes' /\ \A p \in Request : alone'[p] => alone[p]
  BY <1>1 DEF Begin
<1>2. ASSUME NEW q \in Request, Step(q)
      PROVE  causes \subseteq causes' /\ UNCHANGED alone
  <2>1. CASE Put(q) \/ Post(q) \/ Remove(q) \/ Switch(q)
    <3>1. UNCHANGED causes \/ Fails(q)
      BY <2>1, FailedEffect DEF Put, Post, Remove, Switch, Failed
    <3>2. UNCHANGED alone
      BY <2>1 DEF Put, Post, Remove, Switch
    <3> QED
      BY <3>1, <3>2 DEF Fails
  <2>2. CASE CheckName(q) \/ Insert(q) \/ Load(q) \/ Drop(q) \/ Save(q)
    BY <2>2 DEF CheckName, Insert, Load, Drop, Save
  <2> QED
    BY <1>2, <2>1, <2>2 DEF Step
<1>3. ASSUME NEW q \in Request, Lose(q) PROVE causes \subseteq causes' /\ UNCHANGED alone
  BY <1>3 DEF Lose
<1>4. ASSUME UNCHANGED causes, Disturbed
      PROVE  causes \subseteq causes' /\ \A p \in Request : alone'[p] => alone[p]
  BY <1>4 DEF Disturbed
<1> QED
  BY <1>1, <1>2, <1>3, <1>4 DEF Next, TakeEffect, EditorRemoves, vars

\* The row of a request that is alone is as it was loaded, and n8n runs the
\* workflow it names.
LEMMA AloneFacts ==
    ASSUME HandlersAgree, AloneIsAlone, NEW q \in Request, pc[q] \in PastLoad,
           alone[q] \/ Undisturbed
    PROVE  /\ \A p \in InProgress : p = q
           /\ row[task[q].row] = task[q].loaded
           /\ task[q].copy.wid # task[q].loaded.wid => ~There(task[q].loaded.wid)
           /\ pc[q] \in {"put", "remove", "switch"} =>
                 Live(task[q].row) /\ row[task[q].row].wid = task[q].copy.wid
<1>1. q \in InProgress
  BY DEF InProgress, PastLoad
<1>2. /\ \A p \in InProgress : p = q
      /\ row[task[q].row] = task[q].loaded
      /\ task[q].copy.wid # task[q].loaded.wid => ~There(task[q].loaded.wid)
  BY <1>1 DEF AloneIsAlone, Alone
<1> QED
  BY <1>2 DEF HandlersAgree, Handler, Fits, PastLoad, Live

\* Only what the request in progress does can matter to it.
LEMMA OnlyItself ==
    ASSUME TypeOK, HandlersAgree, AloneIsAlone, NEW q \in Request, [Next]_vars,
           q \in InProgress, \A p \in Request : p # q => pc'[p] = pc[p],
           q \in InProgress' /\ (alone[q] \/ Undisturbed) /\ pc'[q] \in PastLoad =>
              \A t : t = task'[q] =>
                 /\ row'[t.row] = t.loaded
                 /\ t.copy.wid # t.loaded.wid => ~There(t.loaded.wid)'
    PROVE  AloneIsAlone'
<1>1. Undisturbed' => Undisturbed
  BY HistoryGrows DEF Undisturbed
<1>2. \A p \in InProgress' : p \in InProgress
  BY DEF InProgress
<1> SUFFICES ASSUME NEW p \in Request, p \in InProgress', alone'[p] \/ Undisturbed'
             PROVE  /\ \A o \in InProgress' : o = p
                    /\ pc'[p] \in PastLoad =>
                          \A t : t = task'[p] =>
                             /\ row'[t.row] = t.loaded
                             /\ t.copy.wid # t.loaded.wid => ~There(t.loaded.wid)'
  BY DEF AloneIsAlone, Alone, There
<1>3. p \in InProgress /\ (alone[p] \/ Undisturbed)
  BY <1>1, <1>2, HistoryGrows
<1>4. \A o \in InProgress : o = p
  BY <1>3 DEF AloneIsAlone, Alone
<1> QED
  BY <1>2, <1>3, <1>4

LEMMA AloneStep ==
    ASSUME NoneAssumption, TypeOK, HandlersAgree, AloneIsAlone, UndisturbedIsTidy,
           [Next]_vars
    PROVE  AloneIsAlone'
<1>0. \A q \in Request : Handler(q)
  BY DEF HandlersAgree
<1>1. ASSUME NEW q \in Request, NEW o \in Operation, NEW r \in Row,
             NEW d \in Definition \cup {NoDefinition}, Begin(q, o, r, d)
      PROVE  AloneIsAlone'
  <2>1. /\ pc[q] = "new" /\ pc'[q] \in {"check", "load"}
        /\ \A p \in Request : p # q => pc'[p] = pc[p]
    BY <1>1, BeginEffect DEF TypeOK
  <2>2. ASSUME NEW p \in Request, p \in InProgress', alone'[p] \/ Undisturbed'
        PROVE  p = q /\ InProgress = {}
    <3>1. InProgress # {} => ~Undisturbed'
      BY <1>1 DEF Begin, Undisturbed
    <3>2. alone'[p] => p \notin InProgress /\ (p = q => InProgress = {})
      BY <1>1 DEF Begin
    <3>3. p # q => p \in InProgress
      BY <2>1, <2>2 DEF InProgress
    <3> QED
      BY <2>2, <3>1, <3>2, <3>3
  <2>3. InProgress = {} => \A p \in InProgress' : p = q
    BY <2>1 DEF InProgress
  <2> QED
    BY <2>1, <2>2, <2>3 DEF AloneIsAlone, Alone, PastLoad
<1>2. ASSUME NEW q \in Request, CheckName(q) PROVE AloneIsAlone'
  <2>1. /\ q \in InProgress /\ pc'[q] \in {"insert", "done"}
        /\ \A p \in Request : p # q => pc'[p] = pc[p]
    BY <1>2 DEF CheckName, Finish, Goto, InProgress, TypeOK
  <2> QED
    BY <2>1, OnlyItself DEF PastLoad
<1>3. ASSUME NEW q \in Request, pc[q] \notin {"new", "done"}, pc' = [pc EXCEPT ![q] = "done"]
      PROVE  AloneIsAlone'
  <2>1. /\ q \in InProgress /\ pc'[q] = "done"
        /\ \A p \in Request : p # q => pc'[p] = pc[p]
    BY <1>3 DEF InProgress, TypeOK
  <2> QED
    BY <2>1, OnlyItself DEF PastLoad
<1>4. ASSUME NEW q \in Request, Insert(q) \/ Load(q) PROVE AloneIsAlone'
  <2>1. q \in InProgress /\ UNCHANGED row /\ pc[q] \notin {"new", "done"}
    BY <1>0, <1>4, ReadEffect DEF InProgress
  <2>2. CASE Stops(q)
    BY <1>3, <2>1, <2>2 DEF Stops
  <2>3. ASSUME NEW t \in Task, NEW step, Reads(q, step, t) PROVE AloneIsAlone'
    <3>1. /\ task'[q] = t /\ \A p \in Request : p # q => pc'[p] = pc[p]
      BY <2>3, Moved DEF Reads
    <3>2. row[t.row] = t.loaded /\ t.copy.wid = t.loaded.wid
      BY <2>3 DEF Reads
    <3> QED
      BY <2>1, <3>1, <3>2, OnlyItself
  <2> QED
    BY <1>0, <1>4, <2>2, <2>3, ReadEffect
<1>5. ASSUME NEW q \in Request, Put(q) \/ Post(q) \/ Remove(q) \/ Switch(q) PROVE AloneIsAlone'
  <2>1. /\ q \in InProgress /\ UNCHANGED row /\ pc[q] \in PastLoad
    BY <1>0, <1>5, CallEffect DEF InProgress, PastLoad
  <2>2. PICK t \in Task, step \in {"save", "post", "drop", "done"} : Calls(q, step, t)
    BY <1>0, <1>5, CallEffect
  <2>3. /\ task'[q] = t /\ \A p \in Request : p # q => pc'[p] = pc[p]
        /\ t.row = task[q].row /\ t.loaded = task[q].loaded
    BY <2>2, Moved DEF Calls
  <2>4. ASSUME alone[q] \/ Undisturbed, t.copy.wid # t.loaded.wid
        PROVE  ~There(t.loaded.wid)'
    <3>1. task[q].copy.wid # t.loaded.wid => ~There(t.loaded.wid)
      BY <2>1, <2>3, <2>4, AloneFacts
    <3>2. CASE t.loaded.wid = NoWorkflow
      BY <3>2, NoneAssumption DEF There
    <3>3. CASE t.loaded.wid # NoWorkflow /\ Tells(q, step, t)
      <4>1. ~There(t.loaded.wid)
        BY <2>4, <3>1, <3>3 DEF Tells
      <4> QED
        BY <2>4, <3>3, <4>1 DEF Tells, There
    <3>4. CASE TellsNot(q, step, t)
      <4>1. ~There(t.loaded.wid)
        BY <2>4, <3>1, <3>4 DEF TellsNot
      <4> QED
        BY <3>4, <4>1 DEF TellsNot, There
    <3> QED
      BY <2>2, <3>2, <3>3, <3>4 DEF Calls
  <2>5. alone[q] \/ Undisturbed => row[t.row] = t.loaded
    BY <2>1, <2>3, AloneFacts
  <2> QED
    BY <2>1, <2>3, <2>4, <2>5, OnlyItself
<1>6. ASSUME NEW q \in Request, Save(q) \/ Drop(q) \/ Lose(q) PROVE AloneIsAlone'
  <2>1. pc[q] \notin {"new", "done"} /\ pc' = [pc EXCEPT ![q] = "done"]
    BY <1>6, SaveEffect, DropEffect DEF Lose, Finish, InProgress
  <2> QED
    BY <1>3, <2>1
<1>7. ASSUME Disturbed, UNCHANGED <<row, pc, task, causes>>,
             Undisturbed => \A w : There(w)' => There(w)
      PROVE  AloneIsAlone'
  <2>1. InProgress' = InProgress /\ (Undisturbed' <=> Undisturbed)
    BY <1>7 DEF InProgress, Undisturbed
  <2>2. \A p \in InProgress : ~alone'[p]
    BY <1>7 DEF Disturbed, InProgress
  <2> QED
    BY <1>7, <2>1, <2>2 DEF AloneIsAlone, Alone
<1>8. ASSUME NEW q \in Request, TakeEffect(q) PROVE AloneIsAlone'
  <2>1. ~Undisturbed
    BY <1>8 DEF TakeEffect, UndisturbedIsTidy
  <2> QED
    BY <1>7, <1>8, <2>1 DEF TakeEffect
<1>9. ASSUME NEW w \in Workflow, EditorRemoves(w) PROVE AloneIsAlone'
  <2>1. \A v : There(v)' => There(v)
    BY <1>9 DEF EditorRemoves, There, TypeOK
  <2> QED
    BY <1>7, <1>9, <2>1 DEF EditorRemoves
<1>10. CASE UNCHANGED vars
  BY <1>10 DEF vars, AloneIsAlone, Alone, InProgress, Undisturbed, There
<1> QED
  BY <1>1, <1>2, <1>4, <1>5, <1>6, <1>8, <1>9, <1>10 DEF Next, Step
-----------------------------------------------------------------------------
(* What a request that is alone has told n8n, and what it says of it. *)

LEMMA ToldStep ==
    ASSUME NoneAssumption, TypeOK, HandlersAgree, AloneIsAlone, ToldHolds, [Next]_vars
    PROVE  ToldHolds'
<1>0. \A q \in Request : Handler(q)
  BY DEF HandlersAgree
<1>n. ASSUME NEW q \in InProgress, pc[q] \notin {"new", "done"},
             \A p \in Request : p # q => pc'[p] = pc[p],
             q \in InProgress' /\ alone[q] =>
                \A t : t = task'[q] /\ t.fine =>
                   /\ pc'[q] = "save" /\ t.op \in {"create", "update"} =>
                         There(t.copy.wid)' /\ flow'[t.copy.wid].def = t.copy.def
                   /\ pc'[q] = "save" /\ t.op \notin {"create", "update"} =>
                         There(t.copy.wid)' /\ flow'[t.copy.wid].active = t.copy.active
                   /\ pc'[q] = "drop" /\ There(t.loaded.wid)' => t.loaded.wid \in kept'
      PROVE  ToldHolds'
  <2>1. ASSUME NEW p \in InProgress', alone'[p] PROVE p = q /\ alone[q]
    <3>1. p \in InProgress
      BY <1>n DEF InProgress
    <3>2. alone[p]
      BY <2>1, HistoryGrows DEF InProgress
    <3> QED
      BY <3>1, <3>2 DEF AloneIsAlone, Alone, InProgress
  <2> QED
    BY <1>n, <2>1 DEF ToldHolds, There
<1>1. ASSUME NEW q \in Request, NEW o \in Operation, NEW r \in Row,
             NEW d \in Definition \cup {NoDefinition}, Begin(q, o, r, d)
      PROVE  ToldHolds'
  <2>1. /\ pc[q] = "new" /\ pc'[q] \in {"check", "load"}
        /\ \A p \in Request : p # q => pc'[p] = pc[p]
    BY <1>1, BeginEffect DEF TypeOK
  <2>2. ASSUME NEW p \in InProgress', alone'[p] PROVE p = q
    <3>1. p \in Request /\ (p # q => p \in InProgress)
      BY <2>1 DEF InProgress
    <3>2. alone'[p] => p \notin InProgress
      BY <1>1, <3>1 DEF Begin
    <3> QED
      BY <2>2, <3>1, <3>2
  <2> QED
    BY <2>1, <2>2 DEF ToldHolds
<1>2. ASSUME NEW q \in Request, CheckName(q) PROVE ToldHolds'
  <2>1. /\ q \in InProgress /\ pc'[q] \in {"insert", "done"} /\ pc[q] = "check"
        /\ \A p \in Request : p # q => pc'[p] = pc[p]
    BY <1>2 DEF CheckName, Finish, Goto, InProgress, TypeOK
  <2> QED
    BY <1>n, <2>1
<1>3. ASSUME NEW q \in Request, pc[q] \notin {"new", "done"}, pc' = [pc EXCEPT ![q] = "done"]
      PROVE  ToldHolds'
  <2>1. /\ q \in InProgress /\ pc'[q] = "done"
        /\ \A p \in Request : p # q => pc'[p] = pc[p]
    BY <1>3 DEF InProgress, TypeOK
  <2> QED
    BY <1>3, <1>n, <2>1
<1>4. ASSUME NEW q \in Request, Insert(q) \/ Load(q) PROVE ToldHolds'
  <2>1. q \in InProgress /\ pc[q] \notin {"new", "done"}
    BY <1>0, <1>4, ReadEffect DEF InProgress
  <2>2. CASE Stops(q)
    BY <1>3, <2>1, <2>2 DEF Stops
  <2>3. ASSUME NEW t \in Task, NEW step, Reads(q, step, t) PROVE ToldHolds'
    <3>1. /\ task'[q] = t /\ \A p \in Request : p # q => pc'[p] = pc[p]
      BY <2>3, Moved DEF Reads
    <3>2. ~t.fine
      BY <2>3 DEF Reads
    <3> QED
      BY <1>n, <2>1, <3>1, <3>2
  <2> QED
    BY <1>0, <1>4, <2>2, <2>3, ReadEffect
<1>5. ASSUME NEW q \in Request, Put(q) \/ Post(q) \/ Remove(q) \/ Switch(q) PROVE ToldHolds'
  <2>1. q \in InProgress /\ pc[q] \notin {"new", "done"}
    BY <1>0, <1>5, CallEffect DEF InProgress
  <2>2. PICK t \in Task, step \in {"save", "post", "drop", "done"} : Calls(q, step, t)
    BY <1>0, <1>5, CallEffect
  <2>3. /\ task'[q] = t /\ pc'[q] = step /\ \A p \in Request : p # q => pc'[p] = pc[p]
    BY <2>2, Moved DEF Calls
  <2>4. step = "drop" => t.copy.wid = t.loaded.wid
    BY <2>3, HandlerStep DEF HandlersAgree, Handler, Fits
  <2>5. ASSUME t.fine
        PROVE  /\ step = "save" /\ t.op \in {"create", "update"} =>
                     There(t.copy.wid)' /\ flow'[t.copy.wid].def = t.copy.def
               /\ step = "save" /\ t.op \notin {"create", "update"} =>
                     There(t.copy.wid)' /\ flow'[t.copy.wid].active = t.copy.active
               /\ step = "drop" /\ There(t.loaded.wid)' => t.loaded.wid \in kept'
    BY <2>2, <2>4, <2>5 DEF Calls, Tells, TellsNot, There
  <2> QED
    BY <1>n, <2>1, <2>3, <2>5
<1>6. ASSUME NEW q \in Request, Save(q) \/ Drop(q) \/ Lose(q) PROVE ToldHolds'
  <2>1. pc[q] \notin {"new", "done"} /\ pc' = [pc EXCEPT ![q] = "done"]
    BY <1>6, SaveEffect, DropEffect DEF Lose, Finish, InProgress
  <2> QED
    BY <1>3, <2>1
<1>7. ASSUME Disturbed, UNCHANGED pc PROVE ToldHolds'
  BY <1>7 DEF Disturbed, ToldHolds, InProgress
<1>8. CASE UNCHANGED vars
  BY <1>8 DEF vars, ToldHolds, InProgress, There
<1> QED
  BY <1>1, <1>2, <1>4, <1>5, <1>6, <1>7, <1>8 DEF Next, Step, TakeEffect, EditorRemoves

\* The row that a request which is alone saves is the one it built.
LEMMA SavesItsCopy ==
    ASSUME TypeOK, HandlersAgree, AloneIsAlone, NEW q \in Request, pc[q] = "save",
           alone[q] \/ Undisturbed
    PROVE  /\ Written(q).state = "live" /\ Written(q).def = task[q].copy.def
           /\ Written(q).wid = task[q].copy.wid /\ Written(q).active = task[q].copy.active
<1>1. row[task[q].row] = task[q].loaded /\ task[q].copy.state = "live"
  BY AloneFacts DEF PastLoad, HandlersAgree, Handler, Fits
<1> QED
  BY <1>1, WrittenFields

LEMMA LastWordStep ==
    ASSUME NoneAssumption, TypeOK, HandlersAgree, AloneIsAlone, ToldHolds, LastWordHolds,
           [Next]_vars
    PROVE  LastWordHolds'
<1>1. CASE lastWord' = Silence
  BY <1>1 DEF LastWordHolds, Silence
<1>2. ASSUME NEW q \in Request, Save(q), lastWord' # Silence PROVE LastWordHolds'
  <2> DEFINE s == task[q]
             c == Written(q)
  <2>0. row \in [Row -> Column] /\ s.row \in Row
    BY DEF TypeOK
  <2>1. /\ pc[q] = "save" /\ row' = [row EXCEPT ![s.row] = c] /\ UNCHANGED flow
        /\ alone[q] /\ s.fine
        /\ lastWord' = [row |-> s.row,
                        said |-> IF s.op \in {"create", "update"} THEN "saved" ELSE "switched"]
    BY <1>2, SaveEffect, Zenon
  <2>2. c.state = "live" /\ c.def = s.copy.def /\ c.wid = s.copy.wid
        /\ c.active = s.copy.active
    BY <2>1, SavesItsCopy
  <2>3. q \in InProgress
    BY <2>1 DEF InProgress
  <2>4. /\ There(s.copy.wid)
        /\ s.op \in {"create", "update"} => flow[s.copy.wid].def = s.copy.def
        /\ s.op \notin {"create", "update"} => flow[s.copy.wid].active = s.copy.active
    BY <2>1, <2>3 DEF ToldHolds
  <2>5. row'[s.row] = c
    BY <2>0, <2>1
  <2>6. lastWord'.row = s.row
        /\ lastWord'.said = IF s.op \in {"create", "update"} THEN "saved" ELSE "switched"
    BY <2>1
  <2>7. row'[lastWord'.row].state = "live" /\ row'[lastWord'.row].def = s.copy.def
        /\ row'[lastWord'.row].wid = s.copy.wid /\ row'[lastWord'.row].active = s.copy.active
    BY <2>2, <2>5, <2>6
  <2> HIDE DEF s, c
  <2> QED
    BY <2>1, <2>4, <2>6, <2>7 DEF LastWordHolds, Live, There
<1>3. ASSUME NEW q \in Request, Drop(q), lastWord' # Silence PROVE LastWordHolds'
  <2> DEFINE s == task[q]
  <2>0. row \in [Row -> Column] /\ s.row \in Row
    BY DEF TypeOK
  <2>1. /\ pc[q] = "drop" /\ row' = [row EXCEPT ![s.row].state = "gone"] /\ UNCHANGED flow
        /\ alone[q] /\ (s.fine \/ s.copy.wid = NoWorkflow) /\ UNCHANGED kept
        /\ lastWord' = [row |-> s.row, said |-> "deleted"]
    <3>1. UNCHANGED kept
      BY <1>3 DEF Drop
    <3> QED
      BY <1>3, <3>1, DropEffect, Zenon
  <2>2. row[s.row] = s.loaded
    BY <2>1, AloneFacts DEF PastLoad
  <2>3. There(s.loaded.wid) => s.loaded.wid \in kept
    <3>1. s.copy.wid = s.loaded.wid
      BY <2>1 DEF HandlersAgree, Handler, Fits
    <3> QED
      BY <2>1, <3>1, NoneAssumption DEF ToldHolds, InProgress, There
  <2>4. row'[s.row].state = "gone" /\ row'[s.row].wid = s.loaded.wid
    BY <2>0, <2>1, <2>2 DEF Column
  <2> QED
    BY <2>1, <2>3, <2>4 DEF LastWordHolds, Live, There
<1>4. CASE UNCHANGED vars
  BY <1>4 DEF vars, LastWordHolds, Live, There
<1> QED
  BY <1>1, <1>2, <1>3, <1>4, WordStep
-----------------------------------------------------------------------------
(* Requests that do not overlap, and that n8n obeys, keep the two in step. *)

LEMMA Unfailed ==
    ASSUME NEW q \in Request, Undisturbed' PROVE ~Fails(q)
BY DEF Undisturbed, Fails

\* Nothing is late, and the workflow of a row about to be dropped is gone.
LEMMA LateStep ==
    ASSUME NoneAssumption, TypeOK, HandlersAgree, UndisturbedIsTidy,
           [Next]_vars, Undisturbed'
    PROVE  Undisturbed /\ late = {} /\ late' = {}
<1>0. \A q \in Request : Handler(q)
  BY DEF HandlersAgree
<1>1. Undisturbed /\ late = {}
  BY HistoryGrows DEF Undisturbed, UndisturbedIsTidy
<1>2. ASSUME NEW q \in Request, Put(q) \/ Post(q) \/ Remove(q) \/ Switch(q) PROVE late' = {}
  <2>1. UNCHANGED late
    BY <1>0, <1>2, CallEffect, Unfailed DEF Calls, Tells, TellsNot
  <2> QED
    BY <1>1, <2>1
<1>3. ASSUME NEW q \in Request, CheckName(q) \/ Insert(q) \/ Load(q) \/ Save(q) \/ Drop(q)
                                \/ Lose(q) \/ TakeEffect(q)
      PROVE  late' = {}
  BY <1>1, <1>3 DEF CheckName, Insert, Load, Save, Drop, Lose, TakeEffect
<1> QED
  BY <1>1, <1>2, <1>3 DEF Next, Step, Begin, EditorRemoves, vars

LEMMA DroppedStep ==
    ASSUME NoneAssumption, TypeOK, HandlersAgree, IdsAreHanded, UndisturbedIsTidy,
           [Next]_vars, Undisturbed'
    PROVE  DroppedLast'
<1>0. \A q \in Request : Handler(q)
  BY DEF HandlersAgree
<1>1. \A p \in Request : pc[p] = "drop" => ~There(task[p].loaded.wid)
  BY LateStep DEF UndisturbedIsTidy, DroppedLast
<1>2. \A p \in Request : \A t : t = task[p] /\ pc[p] = "drop" => ~There(t.loaded.wid)'
  <2> SUFFICES ASSUME NEW p \in Request, pc[p] = "drop", NEW t, t = task[p]
               PROVE  ~There(t.loaded.wid)'
    OBVIOUS
  <2>1. ~There(t.loaded.wid) /\ t.loaded.wid = t.copy.wid
    BY <1>0, <1>1 DEF Handler, Fits
  <2>2. Handed(t.loaded.wid)
    BY <2>1 DEF IdsAreHanded
  <2> QED
    BY <2>1, <2>2, FlowStep DEF FlowGrows, There, Handed
<1>f. ASSUME NEW q \in Request,
             \A p \in Request : p # q => task'[p] = task[p] /\ pc'[p] = pc[p],
             \A t : t = task'[q] /\ pc'[q] = "drop" => ~There(t.loaded.wid)'
      PROVE  DroppedLast'
  BY <1>2, <1>f DEF DroppedLast, There
<1>3. ASSUME NEW q \in Request, NEW o \in Operation, NEW r \in Row,
             NEW d \in Definition \cup {NoDefinition}, Begin(q, o, r, d)
      PROVE  DroppedLast'
  <2>1. /\ pc'[q] # "drop"
        /\ \A p \in Request : p # q => task'[p] = task[p] /\ pc'[p] = pc[p]
    BY <1>3, BeginEffect DEF TypeOK
  <2> QED
    BY <1>f, <2>1
<1>4. ASSUME NEW q \in Request, UNCHANGED task, \E step \in {"insert", "done"} :
                                                   pc' = [pc EXCEPT ![q] = step]
      PROVE  DroppedLast'
  <2>1. pc'[q] # "drop" /\ \A p \in Request : p # q => pc'[p] = pc[p]
    BY <1>4 DEF TypeOK
  <2> QED
    BY <1>4, <1>f, <2>1
<1>5. ASSUME NEW q \in Request, Insert(q) \/ Load(q)
      PROVE  DroppedLast'
  <2>1. CASE Stops(q)
    BY <1>4, <2>1 DEF Stops
  <2>2. ASSUME NEW t \in Task, NEW step, Reads(q, step, t)
        PROVE  DroppedLast'
    <3>1. /\ task'[q] = t /\ pc'[q] = step
          /\ \A p \in Request : p # q => task'[p] = task[p] /\ pc'[p] = pc[p]
      BY <2>2, Moved DEF Reads
    <3>2. step = "drop" => t.loaded.wid = NoWorkflow
      BY <2>2 DEF Reads
    <3>3. step = "drop" => ~There(t.loaded.wid)'
      BY <3>2, NoneAssumption DEF There
    <3> QED
      BY <1>f, <3>1, <3>3
  <2> QED
    BY <1>0, <1>5, <2>1, <2>2, ReadEffect
<1>6. ASSUME NEW q \in Request, Put(q) \/ Post(q) \/ Remove(q) \/ Switch(q)
      PROVE  DroppedLast'
  <2>1. PICK t \in Task, step \in {"save", "post", "drop", "done"} : Calls(q, step, t)
    BY <1>0, <1>6, CallEffect
  <2>2. /\ task'[q] = t /\ pc'[q] = step
        /\ \A p \in Request : p # q => task'[p] = task[p] /\ pc'[p] = pc[p]
    BY <2>1, Moved DEF Calls
  <2>3. step = "drop" => t.copy.wid = t.loaded.wid
    BY <2>2, HandlerStep DEF HandlersAgree, Handler, Fits
  <2>4. step = "drop" => ~There(t.copy.wid)'
    BY <2>1, Unfailed DEF Calls, Tells, TellsNot
  <2> QED
    BY <1>f, <2>2, <2>3, <2>4
<1>7. ASSUME NEW q \in Request, CheckName(q) \/ Save(q) \/ Drop(q) \/ Lose(q)
      PROVE  DroppedLast'
  <2>1. CASE CheckName(q)
    BY <1>4, <2>1 DEF CheckName, Finish, Goto
  <2>2. CASE Save(q)
    BY <1>4, <2>2, SaveEffect
  <2>3. CASE Drop(q)
    BY <1>4, <2>3, DropEffect
  <2>4. CASE Lose(q)
    BY <1>4, <2>4 DEF Lose, Finish
  <2> QED
    BY <1>7, <2>1, <2>2, <2>3, <2>4
<1>8. CASE UNCHANGED <<pc, task>>
  BY <1>2, <1>8 DEF DroppedLast, There
<1>9. (\E q \in Request : TakeEffect(q)) \/ (\E w \in Workflow : EditorRemoves(w))
         \/ UNCHANGED vars => UNCHANGED <<pc, task>>
  BY DEF TakeEffect, EditorRemoves, vars
<1> QED
  BY <1>3, <1>5, <1>6, <1>7, <1>8, <1>9 DEF Next, Step
\* The workflow a call is about is its row's, and no step takes it from the row.
LEMMA CallIsRowed ==
    ASSUME NoneAssumption, TypeOK, HandlersAgree, AloneIsAlone, Undisturbed, NEW q \in Request,
           pc[q] \in {"put", "post", "remove", "switch"}, task[q].copy.wid \in Workflow
    PROVE  Rowed(task[q].copy.wid)
<1>1. pc[q] # "post"
  BY NoneAssumption DEF HandlersAgree, Handler, Fits
<1>2. Live(task[q].row) /\ row[task[q].row].wid = task[q].copy.wid
  BY <1>1, AloneFacts DEF PastLoad
<1> QED
  BY <1>2 DEF Rowed, TypeOK

LEMMA RowedStays ==
    ASSUME NoneAssumption, TypeOK, HandlersAgree, AloneIsAlone, UndisturbedIsTidy,
           [Next]_vars, Undisturbed', NEW w \in Workflow, There(w), Rowed(w)
    PROVE  Rowed(w)'
<1>0. Undisturbed /\ row \in [Row -> Column] /\ \A q \in Request : task[q].row \in Row
  BY LateStep DEF TypeOK
<1>1. CASE UNCHANGED row
  BY <1>1 DEF Rowed, Live
<1>2. PICK r \in Row : Live(r) /\ row[r].wid = w
  BY DEF Rowed
<1>3. ASSUME NEW q \in Request, Save(q), ~UNCHANGED row PROVE Rowed(w)'
  <2>1. pc[q] = "save" /\ row' = [row EXCEPT ![task[q].row] = Written(q)]
    BY <1>3, SaveEffect
  <2>2. CASE r # task[q].row
    BY <1>0, <1>2, <2>1, <2>2 DEF Rowed, Live
  <2>3. CASE r = task[q].row
    <3>1. row[r] = task[q].loaded /\ task[q].copy.wid = w
      BY <1>0, <1>2, <2>1, <2>3, AloneFacts DEF PastLoad
    <3>2. Written(q).state = "live" /\ Written(q).wid = w
      BY <1>0, <2>1, <3>1, SavesItsCopy
    <3>3. row'[r] = Written(q)
      BY <1>0, <2>1, <2>3
    <3> QED
      BY <3>2, <3>3 DEF Rowed, Live
  <2> QED
    BY <2>2, <2>3
<1>4. ASSUME NEW q \in Request, Drop(q) PROVE Rowed(w)'
  <2>1. pc[q] = "drop" /\ row' = [row EXCEPT ![task[q].row].state = "gone"]
    BY <1>4, DropEffect
  <2>2. row[task[q].row] = task[q].loaded /\ ~There(task[q].loaded.wid)
    BY <1>0, <2>1, AloneFacts DEF PastLoad, UndisturbedIsTidy, DroppedLast
  <2>3. r # task[q].row
    BY <1>2, <2>2
  <2> QED
    BY <1>0, <1>2, <2>1, <2>3 DEF Rowed, Live
<1>5. ASSUME NEW q \in Request, Step(q), ~(Save(q) \/ Drop(q)) PROVE UNCHANGED row
  BY <1>5 DEF Step, CheckName, Insert, Load, Put, Post, Remove, Switch
<1>6. ASSUME NEW q \in Request, NEW o \in Operation, NEW s \in Row,
             NEW d \in Definition \cup {NoDefinition}, Begin(q, o, s, d)
      PROVE  UNCHANGED row
  BY <1>6 DEF Begin
<1>7. ASSUME NEW q \in Request, Lose(q) \/ TakeEffect(q) PROVE UNCHANGED row
  BY <1>7 DEF Lose, TakeEffect
<1>8. ASSUME NEW v \in Workflow, EditorRemoves(v) PROVE UNCHANGED row
  BY <1>8 DEF EditorRemoves
<1> QED
  BY <1>1, <1>3, <1>4, <1>5, <1>6, <1>7, <1>8 DEF Next, vars

\* Only a call makes a workflow, or sets it running.
LEMMA FlowMoves ==
    ASSUME TypeOK, HandlersAgree, [Next]_vars, late = {},
           \A q \in Request : ~(Put(q) \/ Post(q) \/ Remove(q) \/ Switch(q))
    PROVE  \A w \in Workflow : (There(w)' => There(w)) /\ flow'[w].active = flow[w].active
<1>1. CASE UNCHANGED flow
  BY <1>1 DEF There
<1>2. ASSUME NEW w \in Workflow, EditorRemoves(w)
      PROVE  \A v \in Workflow : (There(v)' => There(v)) /\ flow'[v].active = flow[v].active
  <2>1. flow \in [Workflow -> Flow] /\ flow' = [flow EXCEPT ![w].state = "gone"]
    BY <1>2 DEF TypeOK, Flow, EditorRemoves
  <2> QED
    BY <2>1 DEF There, Flow
<1>3. ASSUME NEW q \in Request, Step(q) \/ Lose(q) \/ TakeEffect(q) PROVE UNCHANGED flow
  <2>1. CASE CheckName(q) \/ Insert(q) \/ Load(q) \/ Drop(q)
    BY <2>1 DEF CheckName, Insert, Load, Drop
  <2>2. CASE Save(q) \/ Lose(q)
    BY <2>2 DEF Save, Lose
  <2> QED
    BY <1>3, <2>1, <2>2 DEF Step, TakeEffect
<1>4. ASSUME NEW q \in Request, NEW o \in Operation, NEW r \in Row,
             NEW d \in Definition \cup {NoDefinition}, Begin(q, o, r, d)
      PROVE  UNCHANGED flow
  BY <1>4 DEF Begin
<1> QED
  BY <1>1, <1>2, <1>3, <1>4 DEF Next, vars

LEMMA RunningStep ==
    ASSUME NoneAssumption, TypeOK, HandlersAgree, AloneIsAlone, UndisturbedIsTidy,
           [Next]_vars, Undisturbed'
    PROVE  RunningAreRowed'
<1>0. Undisturbed /\ late = {} /\ RunningAreRowed /\ \A q \in Request : Handler(q)
  BY LateStep DEF UndisturbedIsTidy, HandlersAgree
<1> SUFFICES ASSUME NEW w \in Workflow, There(w)', flow'[w].active PROVE Rowed(w)'
  BY DEF RunningAreRowed
<1>1. CASE There(w) /\ flow[w].active
  BY <1>0, <1>1, RowedStays DEF RunningAreRowed
<1>2. CASE ~(There(w) /\ flow[w].active)
  <2>1. PICK q \in Request : Put(q) \/ Post(q) \/ Remove(q) \/ Switch(q)
    BY <1>0, <1>2, FlowMoves
  <2>2. PICK t \in Task, step \in {"save", "post", "drop", "done"} : Calls(q, step, t)
    BY <1>0, <2>1, CallEffect
  <2>3. UNCHANGED row /\ pc[q] \in {"put", "post", "remove", "switch"}
    BY <1>0, <2>1, CallEffect
  <2>4. task[q].copy.wid = w
    BY <1>2, <2>2 DEF Calls, Tells, TellsNot, There
  <2>5. Rowed(w)
    BY <1>0, <2>3, <2>4, CallIsRowed
  <2> QED
    BY <2>3, <2>5 DEF Rowed, Live
<1> QED
  BY <1>1, <1>2
LEMMA NoneLeftStep ==
    ASSUME NoneAssumption, TypeOK, HandlersAgree, AloneIsAlone, UndisturbedIsTidy,
           [Next]_vars, causes' = {}
    PROVE  NoneLeft'
<1>u. causes = {} /\ Undisturbed'
  BY HistoryGrows DEF Undisturbed
<1>0. Undisturbed /\ late = {} /\ NoneLeft /\ \A q \in Request : Handler(q)
  BY <1>u, LateStep DEF UndisturbedIsTidy, HandlersAgree
<1>s. ASSUME NEW q \in Request,
             \A p \in Request : p # q => task'[p] = task[p] /\ pc'[p] = pc[p],
             \A w \in Workflow : There(w)' =>
                There(w) \/ (q \in InProgress' /\ task'[q].copy.wid = w),
             \A w \in Workflow : There(w)' /\ There(w) /\ q \in InProgress
                                 /\ task[q].copy.wid = w =>
                Rowed(w)' \/ (q \in InProgress' /\ task'[q].copy.wid = w)
      PROVE  NoneLeft'
  <2> SUFFICES ASSUME NEW w \in Workflow, There(w)', ~(\E p \in InProgress' : task'[p].copy.wid = w)
               PROVE  Rowed(w)'
    BY DEF NoneLeft
  <2>1. There(w)
    BY <1>s
  <2>2. CASE Rowed(w)
    BY <1>u, <2>1, <2>2, RowedStays
  <2>3. ASSUME NEW p \in InProgress, task[p].copy.wid = w PROVE Rowed(w)'
    <3>1. p # q => p \in InProgress' /\ task'[p].copy.wid = w
      BY <1>s, <2>3 DEF InProgress
    <3> QED
      BY <1>s, <2>1, <2>3, <3>1
  <2> QED
    BY <1>0, <2>1, <2>2, <2>3 DEF NoneLeft
<1>1. ASSUME NEW q \in Request, NEW o \in Operation, NEW r \in Row,
             NEW d \in Definition \cup {NoDefinition}, Begin(q, o, r, d)
      PROVE  NoneLeft'
  <2>1. /\ pc[q] = "new" /\ \A p \in Request : p # q => task'[p] = task[p] /\ pc'[p] = pc[p]
        /\ UNCHANGED flow
    BY <1>1, BeginEffect DEF TypeOK
  <2> QED
    BY <1>s, <2>1 DEF InProgress, There
<1>2. ASSUME NEW q \in Request, CheckName(q) PROVE NoneLeft'
  <2>1. /\ task[q].copy.wid = NoWorkflow /\ UNCHANGED <<task, flow>>
        /\ \A p \in Request : p # q => pc'[p] = pc[p]
    BY <1>0, <1>2, BlankFields DEF CheckName, Finish, Goto, TypeOK, Handler, Fits, BeforeLoad
  <2> QED
    BY <1>s, <2>1, NoneAssumption DEF There
<1>3. ASSUME NEW q \in Request, Insert(q) \/ Load(q) PROVE NoneLeft'
  <2>1. task[q].copy.wid = NoWorkflow /\ UNCHANGED flow
    BY <1>0, <1>3, BlankFields, ReadEffect DEF Handler, Fits, BeforeLoad
  <2>2. \A p \in Request : p # q => task'[p] = task[p] /\ pc'[p] = pc[p]
    <3>1. CASE Stops(q)
      BY <3>1 DEF Stops, TypeOK
    <3>2. ASSUME NEW t \in Task, NEW step, Reads(q, step, t)
          PROVE  \A p \in Request : p # q => task'[p] = task[p] /\ pc'[p] = pc[p]
      BY <3>2, Moved DEF Reads
    <3> QED
      BY <1>0, <1>3, <3>1, <3>2, ReadEffect
  <2> QED
    BY <1>s, <2>1, <2>2, NoneAssumption DEF There
<1>4. ASSUME NEW q \in Request, Put(q) \/ Post(q) \/ Remove(q) \/ Switch(q) PROVE NoneLeft'
  <2>1. PICK t \in Task, step \in {"save", "post", "drop", "done"} : Calls(q, step, t)
    BY <1>0, <1>4, CallEffect
  <2>2. UNCHANGED row /\ pc[q] \in {"put", "post", "remove", "switch"}
    BY <1>0, <1>4, CallEffect
  <2>3. /\ task'[q] = t /\ pc'[q] = step
        /\ \A p \in Request : p # q => task'[p] = task[p] /\ pc'[p] = pc[p]
    BY <2>1, Moved DEF Calls
  <2>4. step # "done" => q \in InProgress'
    BY <2>3 DEF InProgress
  <2>5. ASSUME NEW w \in Workflow, There(w)'
        PROVE  There(w) \/ (q \in InProgress' /\ task'[q].copy.wid = w)
    BY <2>1, <2>3, <2>4, <2>5 DEF Calls, Tells, TellsNot, There
  <2>6. ASSUME NEW w \in Workflow, There(w), task[q].copy.wid = w PROVE Rowed(w)'
    <3>1. Rowed(w)
      BY <1>0, <2>2, <2>6, CallIsRowed
    <3> QED
      BY <2>2, <3>1 DEF Rowed, Live
  <2> QED
    BY <1>s, <2>3, <2>5, <2>6
<1>5. ASSUME NEW q \in Request, Save(q) PROVE NoneLeft'
  <2>1. /\ pc[q] = "save" /\ UNCHANGED <<task, flow>>
        /\ \A p \in Request : p # q => pc'[p] = pc[p]
    BY <1>5, SaveEffect DEF TypeOK
  <2>2. Rowed(task[q].copy.wid)'
    <3>1. CASE row' = [row EXCEPT ![task[q].row] = Written(q)]
      <4>1. Written(q).state = "live" /\ Written(q).wid = task[q].copy.wid
        BY <1>0, <2>1, SavesItsCopy
      <4>2. task[q].row \in Row /\ row'[task[q].row] = Written(q)
        BY <3>1 DEF TypeOK
      <4> QED
        BY <2>1, <4>1, <4>2 DEF Rowed, Live
    <3>2. CASE task[q].op # "create" /\ ~Live(task[q].row)
      <4>1. row[task[q].row].state = "live"
        BY <1>0, <2>1, <3>2, AloneFacts DEF PastLoad, Handler, Fits
      <4> QED
        BY <3>2, <4>1 DEF Live
    <3> QED
      BY <1>5, <3>1, <3>2, SaveEffect
  <2>3. \A w \in Workflow : task[q].copy.wid = w => Rowed(w)'
    BY <2>1, <2>2 DEF Rowed, Live
  <2> QED
    BY <1>s, <2>1, <2>3 DEF There
<1>6. ASSUME NEW q \in Request, Drop(q) PROVE NoneLeft'
  <2>1. /\ pc[q] = "drop" /\ UNCHANGED <<task, flow>>
        /\ \A p \in Request : p # q => pc'[p] = pc[p]
    <3>1. pc[q] = "drop" /\ pc' = [pc EXCEPT ![q] = "done"] /\ UNCHANGED <<task, flow>>
      BY <1>6, DropEffect
    <3> QED
      BY <3>1 DEF TypeOK
  <2>2. ~There(task[q].copy.wid)
    BY <1>0, <2>1 DEF UndisturbedIsTidy, DroppedLast, Handler, Fits
  <2> QED
    BY <1>s, <2>1, <2>2 DEF There
<1>7. ASSUME NEW q \in Request, Lose(q) PROVE FALSE
  BY <1>7 DEF Lose
<1>8. ASSUME NEW w \in Workflow, EditorRemoves(w) PROVE NoneLeft'
  <2>1. UNCHANGED <<row, pc, task>> /\ \A v \in Workflow : There(v)' => There(v)
    BY <1>8 DEF EditorRemoves, There, TypeOK
  <2> QED
    BY <1>0, <2>1 DEF NoneLeft, Rowed, Live, InProgress
<1>9. CASE UNCHANGED vars
  BY <1>0, <1>9 DEF vars, NoneLeft, Rowed, Live, InProgress, There
<1> QED
  BY <1>0, <1>1, <1>2, <1>3, <1>4, <1>5, <1>6, <1>7, <1>8, <1>9 DEF Next, Step, TakeEffect
-----------------------------------------------------------------------------
(* The theorems. *)

LEMMA RecInductive ==
    ASSUME NoneAssumption, RecipeInv, [Next]_vars PROVE RecipeInv'
<1>1. /\ TypeOK /\ HandlersAgree /\ IdsAreHanded
      /\ AloneIsAlone /\ ToldHolds /\ UndisturbedIsTidy /\ LastWordHolds
  BY DEF RecipeInv
<1>2. TypeOK' /\ HandlersAgree' /\ IdsAreHanded'
  BY <1>1, TypeStep, HandlerStep, IdsStep
<1>3. AloneIsAlone' /\ ToldHolds' /\ LastWordHolds'
  BY <1>1, AloneStep, ToldStep, LastWordStep
<1>4. UndisturbedIsTidy'
  <2> SUFFICES ASSUME Undisturbed'
               PROVE  /\ late' = {} /\ DroppedLast' /\ RunningAreRowed'
                      /\ causes' = {} => NoneLeft'
    BY DEF UndisturbedIsTidy
  <2> QED
    BY <1>1, LateStep, DroppedStep, RunningStep, NoneLeftStep
<1> QED
  BY <1>2, <1>3, <1>4 DEF RecipeInv

\* What holds between two steps of the recipe's handlers: what each of them holds agrees
\* with its place, a request that is alone finds the row and the workflow as it left them,
\* and requests that do not overlap and are obeyed keep row and workflow in step.
THEOREM Invariant == ASSUME NoneAssumption PROVE Spec => []RecipeInv
<1>1. Init => RecipeInv
  BY RecInit
<1>2. RecipeInv /\ [Next]_vars => RecipeInv'
  BY RecInductive
<1> QED
  BY <1>1, <1>2, PTL DEF Spec

\* Every variable of a recipe stays within its type.
THEOREM TypeCorrect == ASSUME NoneAssumption PROVE Spec => []TypeOK
<1>1. RecipeInv => TypeOK
  BY DEF RecipeInv
<1> QED
  BY <1>1, Invariant, PTL

\* A request that nothing else overlapped and that answered with a success has left the
\* row and the workflow in n8n in step: saved, switched, or deleted, both of them, unless
\* n8n has refused to delete the workflow.
THEOREM LastWord == ASSUME NoneAssumption PROVE Spec => []LastWordHolds
<1>1. RecipeInv => LastWordHolds
  BY DEF RecipeInv
<1> QED
  BY <1>1, Invariant, PTL

\* A workflow is left behind in n8n only after something went wrong, and one that still
\* runs only after a call refused or unanswered, or two requests at once.
THEOREM OrphanCause == ASSUME NoneAssumption PROVE Spec => []OrphanHasACause
<1>1. RecipeInv => OrphanHasACause
  <2> SUFFICES ASSUME RecipeInv, NEW w \in Workflow, Orphan(w)
               PROVE  /\ causes # {}
                      /\ flow[w].active =>
                            causes \cap {"overlap", "refused", "unanswered"} # {}
    BY DEF OrphanHasACause
  <2>1. There(w) /\ ~Rowed(w) /\ ~(\E q \in InProgress : task[q].copy.wid = w)
    BY DEF Orphan, Rowed
  <2>2. UndisturbedIsTidy
    BY DEF RecipeInv
  <2>3. causes = {} => Undisturbed
    BY DEF Undisturbed
  <2> QED
    BY <2>1, <2>2, <2>3 DEF UndisturbedIsTidy, NoneLeft, RunningAreRowed, Undisturbed
<1> QED
  BY <1>1, Invariant, PTL
=============================================================================
