--------------------------- MODULE Conversations ---------------------------
(***************************************************************************)
(* The conversations of one person, and the erasure of that person.        *)
(*                                                                         *)
(* A turn is one transaction, open while the model writes its reply: it    *)
(* inserts the question, streams the answer and commits both.  An erasure  *)
(* is a transaction for the conversations, then the documents one by one,  *)
(* then a transaction for the audit rows; the person goes on chatting,     *)
(* uploading and being logged meanwhile.                                   *)
(*                                                                         *)
(* Postgres is modelled at READ COMMITTED from how the code uses it: a     *)
(* statement sees what is committed, a row inserted under a foreign key    *)
(* locks the row it refers to, and a deletion waits for such locks and     *)
(* fails if a reference remains.                                           *)
(***************************************************************************)
EXTENDS Naturals, FiniteSets

CONSTANTS
    Conv,       \* the conversations the person may open
    Turn,       \* the calls of send_message, each made once
    Doc,        \* the person's documents
    Audited,    \* the openings and turns whose audit rows are followed
    NoConv

ASSUME RequestAssumption ==
    /\ NoConv \notin Conv
    /\ Conv \cap Turn = {}
    /\ Audited \subseteq Conv \cup Turn

VARIABLES
    conv,       \* the conversations in the database
    msg,        \* the messages in the database
    rated,      \* the messages a feedback row refers to
    doc,        \* the documents Fleet holds
    opened,     \* the conversations opened so far
    uploaded,   \* the documents uploaded so far
    pc,         \* pc[t]: how far a turn has come
    at,         \* at[t]: its conversation
    logged,     \* the requests whose audit row has been written
    named,      \* the audit rows that still name the person
    era,        \* the erasure: its step, what it has left to do, its locks
    before      \* history: what there was when the erasure began

chatVars == <<conv, msg, rated, opened>>
docVars == <<doc, uploaded>>
turnVars == <<pc, at>>
auditVars == <<logged, named>>
vars == <<chatVars, docVars, turnVars, auditVars, era, before>>

Role == {"user", "assistant"}
Message == [turn : Turn, role : Role]

In(c) == {m \in msg : at[m.turn] = c}

Idle == [step |-> "idle", ids |-> {}, docs |-> {}, deleted |-> {}]
Nothing == [conv |-> {}, msg |-> {}, doc |-> {}, named |-> {}]

Init ==
    /\ conv = {} /\ msg = {} /\ rated = {} /\ opened = {}
    /\ doc = {} /\ uploaded = {}
    /\ pc = [t \in Turn |-> "new"]
    /\ at = [t \in Turn |-> NoConv]
    /\ logged = {} /\ named = {}
    /\ era = Idle
    /\ before = Nothing

-----------------------------------------------------------------------------
(* The person: conversations, documents, and the audit rows of requests. *)

\* create_conversation.
Open(c) ==
    /\ c \notin opened
    /\ opened' = opened \cup {c}
    /\ conv' = conv \cup {c}
    /\ UNCHANGED <<msg, rated, docVars, turnVars, auditVars, era, before>>

Upload(d) ==
    /\ d \notin uploaded
    /\ uploaded' = uploaded \cup {d}
    /\ doc' = doc \cup {d}
    /\ UNCHANGED <<chatVars, turnVars, auditVars, era, before>>

\* AuditMiddleware writes its row in a transaction of its own, once the request
\* has an answer; the body of a streamed answer may come much later.
WriteAudit(r) ==
    /\ r \notin logged
    /\ r \in opened \/ (r \in Turn /\ pc[r] # "new")
    /\ logged' = logged \cup {r}
    /\ named' = named \cup {r}
    /\ UNCHANGED <<chatVars, docVars, turnVars, era, before>>

-----------------------------------------------------------------------------
(* A turn. *)

Goto(t, step) == pc' = [pc EXCEPT ![t] = step]

\* send_message loads the conversation, and answers 404 if it is gone.
Admit(t, c) ==
    /\ pc[t] = "new"
    /\ c \in opened
    /\ at' = [at EXCEPT ![t] = c]
    /\ Goto(t, IF c \in conv THEN "admitted" ELSE "done")
    /\ UNCHANGED <<chatVars, docVars, auditVars, era, before>>

\* The question is flushed: the conversation must still be there, and stays
\* locked until the transaction ends.
Ask(t) ==
    /\ pc[t] = "admitted"
    /\ Goto(t, IF at[t] \in conv THEN "asked" ELSE "done")
    /\ UNCHANGED <<chatVars, at, docVars, auditVars, era, before>>

\* The reply is complete, or a GatewayError has ended it.
Reply(t) ==
    /\ pc[t] = "asked"
    /\ Goto(t, "replied") \/ Goto(t, "failed")
    /\ UNCHANGED <<chatVars, at, docVars, auditVars, era, before>>

\* Mutant of Save: the question's insert was lost with another session.
SaveAnswerOnly(t) ==
    /\ pc[t] = "replied"
    /\ msg' = msg \cup {[turn |-> t, role |-> "assistant"]}
    /\ Goto(t, "done")
    /\ UNCHANGED <<conv, rated, opened, at, docVars, auditVars, era, before>>

\* The commit of question and answer, after the last of the answer was sent.
Save(t) ==
    /\ pc[t] = "replied"
    /\ msg' = msg \cup {[turn |-> t, role |-> r] : r \in Role}
    /\ Goto(t, "done")
    /\ UNCHANGED <<conv, rated, opened, at, docVars, auditVars, era, before>>

\* Mutant of SaveQuestion: the error is stored as a message of its own.
SaveError(t) ==
    /\ pc[t] = "failed"
    /\ msg' = msg \cup {[turn |-> t, role |-> r] : r \in {"user", "error"}}
    /\ Goto(t, "done")
    /\ UNCHANGED <<conv, rated, opened, at, docVars, auditVars, era, before>>

\* After a GatewayError the question is committed alone.
SaveQuestion(t) ==
    /\ pc[t] = "failed"
    /\ msg' = msg \cup {[turn |-> t, role |-> "user"]}
    /\ Goto(t, "done")
    /\ UNCHANGED <<conv, rated, opened, at, docVars, auditVars, era, before>>

\* The reader goes away at a yield, the process dies, or an exception other than
\* GatewayError ends the stream: the transaction rolls back, the question too.
Abandon(t) ==
    /\ pc[t] \in {"admitted", "asked", "replied", "failed"}
    /\ Goto(t, "done")
    /\ UNCHANGED <<chatVars, at, docVars, auditVars, era, before>>

\* submit_feedback, by anyone who may chat.  The message must be there, and must
\* not be one an erasure is deleting: the insert waits for that transaction.
Rate(m) ==
    /\ m \in msg \ (rated \cup era.deleted)
    /\ rated' = rated \cup {m}
    /\ UNCHANGED <<conv, msg, opened, docVars, turnVars, auditVars, era, before>>

-----------------------------------------------------------------------------
(* The erasure. *)

\* Mutant of Start: nothing to do for a person without a conversation.
StartWithConversations ==
    /\ era.step \in {"idle", "refused", "answered"}
    /\ era' = [Idle EXCEPT !.step = IF conv = {} THEN "answered" ELSE "messages",
                           !.ids = conv]
    /\ before' = [conv |-> conv, msg |-> msg, doc |-> doc, named |-> named]
    /\ UNCHANGED <<chatVars, docVars, turnVars, auditVars>>

\* _delete_conversations reads the person's conversations.
Start ==
    /\ era.step \in {"idle", "refused", "answered"}
    /\ era' = [Idle EXCEPT !.step = IF conv = {} THEN "list" ELSE "messages",
                           !.ids = conv]
    /\ before' = [conv |-> conv, msg |-> msg, doc |-> doc, named |-> named]
    /\ UNCHANGED <<chatVars, docVars, turnVars, auditVars>>

\* Mutant of DeleteMessages: each conversation is a transaction.
DeleteMessagesAtOnce(c) ==
    /\ era.step = "messages"
    /\ c \in era.ids
    /\ In(c) \cap rated = {}
    /\ msg' = msg \ In(c)
    /\ era' = [era EXCEPT !.ids = @ \ {c},
                          !.step = IF era.ids = {c} THEN "conversations" ELSE @]
    /\ UNCHANGED <<conv, rated, opened, docVars, turnVars, auditVars, before>>

\* Mutant of DeleteMessages: the answers are kept.
DeleteQuestions(c) ==
    /\ era.step = "messages"
    /\ c \in era.ids
    /\ In(c) \cap rated = {}
    /\ era' = [era EXCEPT !.deleted = @ \cup {m \in In(c) : m.role = "user"},
                          !.ids = @ \ {c},
                          !.step = IF era.ids = {c} THEN "conversations" ELSE @]
    /\ UNCHANGED <<chatVars, docVars, turnVars, auditVars, before>>

\* The messages of one conversation, as committed so far; the rows are locked.
DeleteMessages(c) ==
    /\ era.step = "messages"
    /\ c \in era.ids
    /\ In(c) \cap rated = {}
    /\ era' = [era EXCEPT !.deleted = @ \cup In(c),
                          !.ids = @ \ {c},
                          !.step = IF era.ids = {c} THEN "conversations" ELSE @]
    /\ UNCHANGED <<chatVars, docVars, turnVars, auditVars, before>>

Locked == {at[t] : t \in {u \in Turn : pc[u] \in {"asked", "replied", "failed"}}}

\* The conversations, by hash: all there are by now.  The deletion waits for the
\* turns in progress, and then needs that no message is left; it commits.
DeleteConversations ==
    /\ era.step = "conversations"
    /\ conv \cap Locked = {}
    /\ \A m \in msg \ era.deleted : at[m.turn] \notin conv
    /\ conv' = {}
    /\ msg' = msg \ era.deleted
    /\ era' = [Idle EXCEPT !.step = "list"]
    /\ UNCHANGED <<rated, opened, docVars, turnVars, auditVars, before>>

\* A foreign key stands in the way: a rated message, or a message committed
\* after those of its conversation were deleted.  All of it rolls back.
Refuse ==
    /\ \/ /\ era.step = "messages"
          /\ \E c \in era.ids : In(c) \cap rated # {}
       \/ /\ era.step = "conversations"
          /\ conv \cap Locked = {}
          /\ \E m \in msg \ era.deleted : at[m.turn] \in conv
    /\ era' = [Idle EXCEPT !.step = "refused"]
    /\ UNCHANGED <<chatVars, docVars, turnVars, auditVars, before>>

\* _delete_documents: the list, then each of them in full (module Documents).
ListDocuments ==
    /\ era.step = "list"
    /\ era' = [era EXCEPT !.step = "documents", !.docs = doc]
    /\ UNCHANGED <<chatVars, docVars, turnVars, auditVars, before>>

DeleteDocument(d) ==
    /\ era.step = "documents"
    /\ d \in era.docs
    /\ doc' = doc \ {d}
    /\ era' = [era EXCEPT !.docs = @ \ {d}]
    /\ UNCHANGED <<chatVars, uploaded, turnVars, auditVars, before>>

\* _pseudonymize_audit_rows, and the answer.
Pseudonymize ==
    /\ era.step = "documents"
    /\ era.docs = {}
    /\ named' = {}
    /\ era' = [Idle EXCEPT !.step = "answered"]
    /\ UNCHANGED <<chatVars, docVars, turnVars, logged, before>>

\* Any call fails, or the process dies: what was not committed is undone.
LoseErasure ==
    /\ era.step \notin {"idle", "refused", "answered"}
    /\ era' = Idle
    /\ UNCHANGED <<chatVars, docVars, turnVars, auditVars, before>>

-----------------------------------------------------------------------------
TurnStep(t) == Ask(t) \/ Reply(t) \/ Save(t) \/ SaveQuestion(t)

Erase ==
    \/ Start
    \/ \E c \in Conv : DeleteMessages(c)
    \/ DeleteConversations \/ Refuse
    \/ ListDocuments \/ (\E d \in Doc : DeleteDocument(d)) \/ Pseudonymize

Next ==
    \/ \E c \in Conv : Open(c)
    \/ \E d \in Doc : Upload(d)
    \/ \E r \in Audited : WriteAudit(r)
    \/ \E t \in Turn : (\E c \in Conv : Admit(t, c)) \/ TurnStep(t) \/ Abandon(t)
    \/ \E m \in Message : Rate(m)
    \/ Erase \/ LoseErasure

\* A turn ends, as the model's client has a timeout.  The operator repeats the
\* erasure until it is answered, and from some time on no call of it fails.
Fairness ==
    /\ \A t \in Turn : WF_vars(TurnStep(t))
    /\ WF_vars(Erase)
    /\ <>[][~LoseErasure]_vars

Spec == Init /\ [][Next]_vars
FairSpec == Spec /\ Fairness

-----------------------------------------------------------------------------
(***************************************************************************)
(* Properties.                                                             *)
(***************************************************************************)

\* Every variable stays within its type.
TypeOK ==
    /\ conv \subseteq opened /\ opened \subseteq Conv
    /\ msg \subseteq Message /\ rated \subseteq Message
    /\ doc \subseteq uploaded /\ uploaded \subseteq Doc
    /\ pc \in [Turn -> {"new", "admitted", "asked", "replied", "failed", "done"}]
    /\ at \in [Turn -> Conv \cup {NoConv}]
    /\ named \subseteq logged /\ logged \subseteq Audited
    /\ era \in [step : {"idle", "messages", "conversations", "list", "documents",
                        "refused", "answered"},
                ids : SUBSET Conv, docs : SUBSET Doc, deleted : SUBSET Message]
    /\ before \in [conv : SUBSET Conv, msg : SUBSET Message, doc : SUBSET Doc,
                   named : SUBSET Audited]

\* An answer that is stored has its question, whatever was lost on the way, and
\* every message and every rating belongs to something that is still there.
NothingStray ==
    /\ \A m \in msg :
          /\ at[m.turn] \in conv
          /\ [m EXCEPT !.role = "user"] \in msg
    /\ rated \subseteq msg

\* An erasure that is answered has erased all there was when it began, however
\* the person went on meanwhile and whatever an earlier attempt left.
AnsweredMeansErased ==
    era.step = "answered" =>
        /\ conv \cap before.conv = {}
        /\ msg \cap before.msg = {}
        /\ doc \cap before.doc = {}
        /\ named \cap before.named = {}

\* A conversation is erased whole or not at all: no step takes a message from a
\* conversation that stays.
ErasedWhole ==
    [][\A m \in msg : at[m.turn] \in conv' => m \in msg']_vars

\* An erasure that is repeated is answered in the end, whatever failures it met,
\* unless some message of the person has been rated.
ErasureIsAnswered ==
    era.step = "messages" ~> (era.step = "answered" \/ rated # {})

\* What routers/subjects.py:1-2 says: the endpoint erases a person's
\* conversations and uploads.  A call that is repeated gets there.
EveryoneIsErased == era.step = "messages" ~> era.step = "answered"
=============================================================================
