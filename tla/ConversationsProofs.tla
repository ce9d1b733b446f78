------------------------ MODULE ConversationsProofs ------------------------
(***************************************************************************)
(* Proofs about Conversations, for any conversations, turns and documents. *)
(*                                                                         *)
(* What is stored belongs to a turn that is over, and a turn that has      *)
(* asked keeps its conversation (the row lock): so an erasure that gets    *)
(* past the conversations has left no message at all.  From then on it     *)
(* holds that what there was before is gone, because what is opened,       *)
(* uploaded or logged later was not there before.                          *)
(***************************************************************************)
EXTENDS Conversations, TLAPS

\* Messages come from turns that are over.
StoredIsOver == \A m \in msg : pc[m.turn] = "done"

\* A turn that holds the lock of its conversation finds it there.
LockedIsThere ==
    \A t \in Turn : pc[t] \in {"asked", "replied", "failed"} => at[t] \in conv

\* What the erasure found is older than what it may still meet.
BeforeIsOld ==
    /\ before.conv \subseteq opened
    /\ \A m \in before.msg : pc[m.turn] = "done"
    /\ before.doc \subseteq uploaded
    /\ before.named \subseteq logged

\* How far the erasure has come, and what that means for what it found.
ErasureHolds ==
    /\ era.step \in {"list", "documents", "answered"} =>
          conv \cap before.conv = {} /\ msg \cap before.msg = {}
    /\ era.step = "documents" => doc \cap before.doc \subseteq era.docs
    /\ era.step = "answered" =>
          doc \cap before.doc = {} /\ named \cap before.named = {}

ChatInv ==
    /\ StoredIsOver /\ LockedIsThere /\ NothingStray
    /\ rated \cap era.deleted = {}

ErasureInv == TypeOK /\ ChatInv /\ BeforeIsOld /\ ErasureHolds

-----------------------------------------------------------------------------
LEMMA ConversationsInit == Init => ErasureInv
<1> SUFFICES ASSUME Init PROVE ErasureInv
  OBVIOUS
<1>1. TypeOK
  BY DEF Init, TypeOK, Idle, Nothing
<1>2. ChatInv
  BY DEF Init, ChatInv, StoredIsOver, LockedIsThere, NothingStray
<1> QED
  BY <1>1, <1>2 DEF Init, ErasureInv, BeforeIsOld, ErasureHolds, Idle, Nothing

-----------------------------------------------------------------------------
(* The person. *)

LEMMA OpenStep ==
    ASSUME ErasureInv, NEW c \in Conv, Open(c) PROVE ErasureInv'
<1> USE DEF Open, docVars, turnVars, auditVars
<1>1. TypeOK'
  BY DEF ErasureInv, TypeOK
<1>2. ChatInv'
  BY DEF ErasureInv, ChatInv, StoredIsOver, LockedIsThere, NothingStray
<1>3. BeforeIsOld' /\ ErasureHolds'
  BY DEF ErasureInv, BeforeIsOld, ErasureHolds
<1> QED
  BY <1>1, <1>2, <1>3 DEF ErasureInv

LEMMA UploadStep ==
    ASSUME ErasureInv, NEW d \in Doc, Upload(d) PROVE ErasureInv'
<1> USE DEF Upload, chatVars, turnVars, auditVars
<1>1. TypeOK'
  BY DEF ErasureInv, TypeOK
<1>2. ChatInv'
  BY DEF ErasureInv, ChatInv, StoredIsOver, LockedIsThere, NothingStray
<1>3. BeforeIsOld' /\ ErasureHolds'
  BY DEF ErasureInv, BeforeIsOld, ErasureHolds
<1> QED
  BY <1>1, <1>2, <1>3 DEF ErasureInv

LEMMA WriteAuditStep ==
    ASSUME ErasureInv, NEW r \in Audited, WriteAudit(r) PROVE ErasureInv'
<1> USE DEF WriteAudit, chatVars, docVars, turnVars
<1>1. TypeOK'
  BY DEF ErasureInv, TypeOK
<1>2. ChatInv'
  BY DEF ErasureInv, ChatInv, StoredIsOver, LockedIsThere, NothingStray
<1>3. BeforeIsOld' /\ ErasureHolds'
  BY DEF ErasureInv, BeforeIsOld, ErasureHolds
<1> QED
  BY <1>1, <1>2, <1>3 DEF ErasureInv

LEMMA RateStep ==
    ASSUME ErasureInv, NEW m \in Message, Rate(m) PROVE ErasureInv'
<1> USE DEF Rate, docVars, turnVars, auditVars
<1>1. TypeOK'
  BY DEF ErasureInv, TypeOK
<1>2. ChatInv'
  BY DEF ErasureInv, ChatInv, StoredIsOver, LockedIsThere, NothingStray
<1>3. BeforeIsOld' /\ ErasureHolds'
  BY DEF ErasureInv, BeforeIsOld, ErasureHolds
<1> QED
  BY <1>1, <1>2, <1>3 DEF ErasureInv

-----------------------------------------------------------------------------
(* A turn.  Where it goes is all that matters, unless it stores something. *)

\* A turn is given its conversation before it has stored anything.
LEMMA AdmitStep ==
    ASSUME ErasureInv, NEW t \in Turn, NEW c \in Conv, Admit(t, c)
    PROVE  ErasureInv'
<1> USE DEF Admit, Goto, chatVars, docVars, auditVars
<1>0. /\ pc[t] = "new" /\ \A u \in Turn \ {t} : pc'[u] = pc[u] /\ at'[u] = at[u]
      /\ pc'[t] \in {"admitted", "done"}
  BY DEF ErasureInv, TypeOK
<1>1. TypeOK'
  BY DEF ErasureInv, TypeOK
<1>2. \A m \in msg : /\ m \in Message /\ m.turn \in Turn \ {t}
                     /\ at'[m.turn] = at[m.turn]
  BY <1>0 DEF ErasureInv, TypeOK, ChatInv, StoredIsOver, Message
<1>3. ChatInv'
  BY <1>0, <1>2 DEF ErasureInv, ChatInv, StoredIsOver, LockedIsThere, NothingStray
<1>4. BeforeIsOld'
  BY <1>0 DEF ErasureInv, TypeOK, BeforeIsOld, Message
<1>5. ErasureHolds'
  BY DEF ErasureInv, ErasureHolds
<1> QED
  BY <1>1, <1>3, <1>4, <1>5 DEF ErasureInv

\* A turn moves on without storing anything.
LEMMA MoveStep ==
    ASSUME ErasureInv, NEW t \in Turn, Ask(t) \/ Reply(t) \/ Abandon(t)
    PROVE  ErasureInv'
<1> USE DEF Ask, Reply, Abandon, Goto, chatVars, docVars, auditVars
<1>1. PICK s \in {"asked", "replied", "failed", "done"} :
         /\ pc' = [pc EXCEPT ![t] = s]
         /\ pc[t] # "done"
         /\ s # "done" => at[t] \in conv
         /\ UNCHANGED <<chatVars, at, docVars, auditVars, era, before>>
  BY DEF ErasureInv, ChatInv, LockedIsThere
<1>2. TypeOK'
  BY <1>1 DEF ErasureInv, TypeOK
<1>3. \A u \in Turn : pc[u] = "done" => pc'[u] = "done"
  BY <1>1 DEF ErasureInv, TypeOK
<1>4. ChatInv'
  <2>1. StoredIsOver'
    BY <1>1, <1>3 DEF ErasureInv, TypeOK, ChatInv, StoredIsOver, Message
  <2>2. LockedIsThere'
    BY <1>1 DEF ErasureInv, TypeOK, ChatInv, LockedIsThere
  <2> QED
    BY <1>1, <2>1, <2>2 DEF ErasureInv, ChatInv, NothingStray
<1>5. BeforeIsOld'
  BY <1>1, <1>3 DEF ErasureInv, TypeOK, BeforeIsOld, Message
<1>6. ErasureHolds'
  BY <1>1 DEF ErasureInv, ErasureHolds
<1> QED
  BY <1>2, <1>4, <1>5, <1>6 DEF ErasureInv

\* A turn stores its question, with or without its answer, and is over.
LEMMA StoreStep ==
    ASSUME ErasureInv, NEW t \in Turn, Save(t) \/ SaveQuestion(t)
    PROVE  ErasureInv'
<1> USE DEF Save, SaveQuestion, Goto, docVars, auditVars
<1>1. PICK new \in SUBSET Role :
         /\ "user" \in new
         /\ msg' = msg \cup {[turn |-> t, role |-> r] : r \in new}
         /\ pc[t] \in {"replied", "failed"}
         /\ pc' = [pc EXCEPT ![t] = "done"]
         /\ UNCHANGED <<conv, rated, opened, at, docVars, auditVars, era, before>>
  <2>1. CASE Save(t)
    BY <2>1 DEF Role
  <2>2. CASE SaveQuestion(t)
    <3>1. {[turn |-> t, role |-> r] : r \in {"user"}} = {[turn |-> t, role |-> "user"]}
      OBVIOUS
    <3> QED
      BY <2>2, <3>1 DEF Role
  <2> QED
    BY <2>1, <2>2
<1>2. {[turn |-> t, role |-> r] : r \in new} \subseteq Message
  BY DEF Message
<1>3. TypeOK'
  BY <1>1, <1>2 DEF ErasureInv, TypeOK
<1>4. \A u \in Turn : pc[u] = "done" => pc'[u] = "done"
  BY <1>1 DEF ErasureInv, TypeOK
<1>5. /\ at[t] \in conv
      /\ \A m \in {[turn |-> t, role |-> r] : r \in new} :
            /\ m.turn = t /\ m \notin before.msg
            /\ [m EXCEPT !.role = "user"] = [turn |-> t, role |-> "user"]
  BY <1>1 DEF ErasureInv, ChatInv, LockedIsThere, BeforeIsOld
<1>6. StoredIsOver'
  BY <1>1, <1>4, <1>5 DEF ErasureInv, TypeOK, ChatInv, StoredIsOver, Message
<1>7. LockedIsThere'
  BY <1>1 DEF ErasureInv, TypeOK, ChatInv, LockedIsThere
<1>8. NothingStray'
  BY <1>1, <1>5 DEF ErasureInv, ChatInv, NothingStray
<1>9. BeforeIsOld'
  BY <1>1, <1>4 DEF ErasureInv, TypeOK, BeforeIsOld, Message
<1>10. ErasureHolds'
  BY <1>1, <1>5 DEF ErasureInv, ErasureHolds
<1> QED
  BY <1>1, <1>3, <1>6, <1>7, <1>8, <1>9, <1>10 DEF ErasureInv, ChatInv

-----------------------------------------------------------------------------
(* The erasure.  Only its third step, the commit, changes what is stored. *)

\* Nothing of the person's chats changes in a step that leaves the deletions
\* of the erasure apart from what is rated.
LEMMA SameChats ==
    ASSUME ErasureInv, UNCHANGED <<chatVars, turnVars>>, rated \cap era'.deleted = {}
    PROVE  ChatInv'
BY DEF ErasureInv, ChatInv, chatVars, turnVars, StoredIsOver, LockedIsThere,
   NothingStray

LEMMA StartStep ==
    ASSUME ErasureInv, Start PROVE ErasureInv'
<1>1. /\ era' = [step |-> IF conv = {} THEN "list" ELSE "messages", ids |-> conv,
                 docs |-> {}, deleted |-> {}]
      /\ before' = [conv |-> conv, msg |-> msg, doc |-> doc, named |-> named]
      /\ UNCHANGED <<conv, msg, rated, opened, doc, uploaded, pc, at, logged, named>>
  BY DEF Start, Idle, chatVars, docVars, turnVars, auditVars
<1>2. TypeOK'
  BY <1>1 DEF ErasureInv, TypeOK
<1>3. ChatInv'
  BY <1>1, SameChats DEF chatVars, turnVars
<1>4. BeforeIsOld'
  BY <1>1 DEF ErasureInv, TypeOK, BeforeIsOld, ChatInv, StoredIsOver
<1>5. conv = {} => msg = {}
  BY DEF ErasureInv, ChatInv, NothingStray
<1>6. ErasureHolds'
  BY <1>1, <1>5 DEF ErasureHolds
<1> QED
  BY <1>2, <1>3, <1>4, <1>6 DEF ErasureInv

\* What is about to be deleted has no rating, and gets none.
LEMMA DeleteMessagesStep ==
    ASSUME ErasureInv, NEW c \in Conv, DeleteMessages(c) PROVE ErasureInv'
<1>1. /\ era.step = "messages" /\ In(c) \cap rated = {}
      /\ era' = [era EXCEPT !.deleted = @ \cup In(c), !.ids = @ \ {c},
                            !.step = IF era.ids = {c} THEN "conversations" ELSE @]
      /\ UNCHANGED <<conv, msg, rated, opened, doc, uploaded, pc, at, logged, named,
                     before>>
  BY DEF DeleteMessages, chatVars, docVars, turnVars, auditVars
<1>2. /\ era'.step \in {"messages", "conversations"} /\ era'.ids \subseteq Conv
      /\ era'.docs = era.docs /\ era'.deleted = era.deleted \cup In(c)
  BY <1>1 DEF ErasureInv, TypeOK
<1>3. TypeOK'
  <2>1. In(c) \subseteq Message
    BY DEF In, ErasureInv, TypeOK
  <2>2. era' \in [step : {"idle", "messages", "conversations", "list", "documents",
                          "refused", "answered"},
                  ids : SUBSET Conv, docs : SUBSET Doc, deleted : SUBSET Message]
    BY <1>1, <2>1 DEF ErasureInv, TypeOK
  <2> QED
    BY <1>1, <2>2 DEF ErasureInv, TypeOK
<1>4. ChatInv'
  BY <1>1, <1>2, SameChats DEF ErasureInv, ChatInv, chatVars, turnVars
<1>5. BeforeIsOld' /\ ErasureHolds'
  BY <1>1, <1>2 DEF ErasureInv, BeforeIsOld, ErasureHolds
<1> QED
  BY <1>3, <1>4, <1>5 DEF ErasureInv

\* The commit: no turn holds a conversation, so none is lost to one; and every
\* message that is not deleted would be of a conversation that is.
LEMMA DeleteConversationsStep ==
    ASSUME ErasureInv, DeleteConversations PROVE ErasureInv'
<1>1. /\ conv \cap Locked = {}
      /\ \A m \in msg \ era.deleted : at[m.turn] \notin conv
      /\ conv' = {} /\ msg' = msg \ era.deleted
      /\ era' = [step |-> "list", ids |-> {}, docs |-> {}, deleted |-> {}]
      /\ UNCHANGED <<rated, opened, doc, uploaded, pc, at, logged, named, before>>
  BY DEF DeleteConversations, Idle, docVars, turnVars, auditVars
<1>2. msg' = {}
  BY <1>1 DEF ErasureInv, ChatInv, NothingStray
<1>3. rated = {}
  BY <1>1, <1>2 DEF ErasureInv, ChatInv, NothingStray
<1>4. \A t \in Turn : pc[t] \notin {"asked", "replied", "failed"}
  BY <1>1 DEF Locked, ErasureInv, ChatInv, LockedIsThere
<1>5. TypeOK'
  BY <1>1, <1>2 DEF ErasureInv, TypeOK
<1>6. ChatInv'
  BY <1>1, <1>2, <1>3, <1>4 DEF ChatInv, StoredIsOver, LockedIsThere, NothingStray
<1>7. BeforeIsOld'
  BY <1>1 DEF ErasureInv, BeforeIsOld
<1>8. ErasureHolds'
  BY <1>1, <1>2 DEF ErasureHolds
<1> QED
  BY <1>5, <1>6, <1>7, <1>8 DEF ErasureInv

\* The erasure is refused or fails, and what it had not committed is undone.
LEMMA RollbackStep ==
    ASSUME ErasureInv, Refuse \/ LoseErasure PROVE ErasureInv'
<1>1. PICK s \in {"refused", "idle"} :
         /\ era' = [step |-> s, ids |-> {}, docs |-> {}, deleted |-> {}]
         /\ UNCHANGED <<conv, msg, rated, opened, doc, uploaded, pc, at, logged,
                        named, before>>
  BY DEF Refuse, LoseErasure, Idle, chatVars, docVars, turnVars, auditVars
<1>2. TypeOK'
  BY <1>1 DEF ErasureInv, TypeOK
<1>3. ChatInv'
  BY <1>1, SameChats DEF chatVars, turnVars
<1>4. BeforeIsOld' /\ ErasureHolds'
  BY <1>1 DEF ErasureInv, BeforeIsOld, ErasureHolds
<1> QED
  BY <1>2, <1>3, <1>4 DEF ErasureInv

\* The documents that were there are listed, then deleted one by one.
LEMMA DocumentsStep ==
    ASSUME ErasureInv, ListDocuments \/ \E d \in Doc : DeleteDocument(d)
    PROVE  ErasureInv'
<1>1. PICK docs \in SUBSET Doc :
         /\ era.step \in {"list", "documents"}
         /\ era' = [era EXCEPT !.step = "documents", !.docs = docs]
         /\ doc' \subseteq doc /\ doc' \cap before.doc \subseteq docs
         /\ UNCHANGED <<conv, msg, rated, opened, uploaded, pc, at, logged, named,
                        before>>
  <2>1. CASE ListDocuments
    BY <2>1 DEF ListDocuments, ErasureInv, TypeOK, chatVars, docVars, turnVars,
       auditVars
  <2>2. ASSUME NEW d \in Doc, DeleteDocument(d)
        PROVE  /\ era.step = "documents"
               /\ era' = [era EXCEPT !.step = "documents", !.docs = era.docs \ {d}]
               /\ era.docs \ {d} \in SUBSET Doc
               /\ doc' \subseteq doc /\ doc' \cap before.doc \subseteq era.docs \ {d}
               /\ UNCHANGED <<conv, msg, rated, opened, uploaded, pc, at, logged,
                              named, before>>
    <3>1. /\ era.step = "documents" /\ era' = [era EXCEPT !.docs = @ \ {d}]
          /\ doc' = doc \ {d}
          /\ UNCHANGED <<conv, msg, rated, opened, uploaded, pc, at, logged, named,
                         before>>
      BY <2>2 DEF DeleteDocument, chatVars, turnVars, auditVars
    <3>2. era = [step |-> "documents", ids |-> era.ids, docs |-> era.docs,
                 deleted |-> era.deleted]
      BY <3>1 DEF ErasureInv, TypeOK
    <3>3. era' = [era EXCEPT !.step = "documents", !.docs = era.docs \ {d}]
      BY <3>1, <3>2
    <3>4. doc' \cap before.doc \subseteq era.docs \ {d} /\ era.docs \in SUBSET Doc
      BY <3>1 DEF ErasureInv, TypeOK, ErasureHolds
    <3> QED
      BY <3>1, <3>3, <3>4
  <2> QED
    BY <2>1, <2>2
<1>2. /\ era'.step = "documents" /\ era'.docs = docs /\ era'.deleted = era.deleted
      /\ era' \in [step : {"documents"}, ids : SUBSET Conv, docs : SUBSET Doc,
                   deleted : SUBSET Message]
  BY <1>1 DEF ErasureInv, TypeOK
<1>3. TypeOK'
  BY <1>1, <1>2 DEF ErasureInv, TypeOK
<1>4. ChatInv'
  BY <1>1, <1>2, SameChats DEF ErasureInv, ChatInv, chatVars, turnVars
<1>5. BeforeIsOld' /\ ErasureHolds'
  BY <1>1, <1>2 DEF ErasureInv, BeforeIsOld, ErasureHolds
<1> QED
  BY <1>3, <1>4, <1>5 DEF ErasureInv

\* The audit rows lose the name, and the call is answered.
LEMMA PseudonymizeStep ==
    ASSUME ErasureInv, Pseudonymize PROVE ErasureInv'
<1>1. /\ era.step = "documents" /\ era.docs = {} /\ named' = {}
      /\ era' = [step |-> "answered", ids |-> {}, docs |-> {}, deleted |-> {}]
      /\ UNCHANGED <<conv, msg, rated, opened, doc, uploaded, pc, at, logged, before>>
  BY DEF Pseudonymize, Idle, chatVars, docVars, turnVars
<1>2. TypeOK'
  BY <1>1 DEF ErasureInv, TypeOK
<1>3. ChatInv'
  BY <1>1, SameChats DEF chatVars, turnVars
<1>4. BeforeIsOld' /\ ErasureHolds'
  BY <1>1 DEF ErasureInv, BeforeIsOld, ErasureHolds
<1> QED
  BY <1>2, <1>3, <1>4 DEF ErasureInv

-----------------------------------------------------------------------------
LEMMA ErasureStep == ErasureInv /\ [Next]_vars => ErasureInv'
<1> SUFFICES ASSUME ErasureInv, [Next]_vars PROVE ErasureInv'
  OBVIOUS
<1>1. CASE UNCHANGED vars
  BY <1>1 DEF vars, chatVars, docVars, turnVars, auditVars, ErasureInv, TypeOK,
     ChatInv, StoredIsOver, LockedIsThere, NothingStray, BeforeIsOld, ErasureHolds
<1>2. ASSUME NEW t \in Turn,
             (\E c \in Conv : Admit(t, c)) \/ TurnStep(t) \/ Abandon(t)
      PROVE  ErasureInv'
  BY <1>2, AdmitStep, MoveStep, StoreStep DEF TurnStep
<1>3. CASE Erase
  BY <1>3, StartStep, DeleteMessagesStep, DeleteConversationsStep, RollbackStep,
     DocumentsStep, PseudonymizeStep DEF Erase
<1> QED
  BY <1>1, <1>2, <1>3, OpenStep, UploadStep, WriteAuditStep, RateStep, RollbackStep
     DEF Next

LEMMA Invariant == Spec => []ErasureInv
BY ConversationsInit, ErasureStep, PTL DEF Spec

\* Conversations, turns and the erasure keep their types.
THEOREM TypeCorrect == Spec => []TypeOK
<1>1. ErasureInv => TypeOK
  BY DEF ErasureInv
<1> QED
  BY Invariant, <1>1, PTL

\* No answer without its question, no message without its conversation, no
\* rating without its message.
THEOREM WholeTurns == Spec => []NothingStray
<1>1. ErasureInv => NothingStray
  BY DEF ErasureInv, ChatInv
<1> QED
  BY Invariant, <1>1, PTL

\* An erasure that is answered has erased all it found when it began.
THEOREM Erased == Spec => []AnsweredMeansErased
<1>1. ErasureInv => AnsweredMeansErased
  BY DEF ErasureInv, ErasureHolds, AnsweredMeansErased
<1> QED
  BY Invariant, <1>1, PTL

\* Whatever takes a message takes its conversation with it.
THEOREM Whole == Spec => ErasedWhole
<1>1. ErasureInv /\ [Next]_vars => [\A m \in msg : at[m.turn] \in conv' => m \in msg']_vars
  <2> SUFFICES ASSUME ErasureInv, Next, NEW m \in msg, at[m.turn] \in conv'
               PROVE  m \in msg'
    OBVIOUS
  <2>1. CASE DeleteConversations
    BY <2>1 DEF DeleteConversations
  <2>2. CASE ~ DeleteConversations
    BY <2>2 DEF Next, Erase, TurnStep, Open, Upload, WriteAudit, Rate, Admit, Ask,
       Reply, Save, SaveQuestion, Abandon, Start, DeleteMessages, Refuse,
       ListDocuments, DeleteDocument, Pseudonymize, LoseErasure, chatVars
  <2> QED
    BY <2>1, <2>2
<1> QED
  BY Invariant, <1>1, PTL DEF Spec, ErasedWhole
=============================================================================
