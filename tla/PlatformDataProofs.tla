-------------------------- MODULE PlatformDataProofs --------------------------
(***************************************************************************)
(* Proofs about the parts of Platform that keep what agents may see:       *)
(* KnowledgeBase, for any collections, files and rankings, and Passages,   *)
(* for any limit, any text and any findings.                               *)
(*                                                                         *)
(* What is sent is covered because each job and each question carries a    *)
(* floor and a name for its calls that is no lower: changing a collection  *)
(* touches neither.  An answer is grounded because the hits it is checked  *)
(* against are a prefix of a finite ranking that fits the cap (KeptFits).  *)
(*                                                                         *)
(* A text is packed by a fold over its paragraphs, and a passage masked by *)
(* one over its findings.  Each is shown to exist, since the library       *)
(* defines it by CHOOSE, and then to keep an invariant of its rounds:      *)
(* after k paragraphs, that the words of the first k stand in the passages *)
(* and what is being packed (Told); after the findings among the last k    *)
(* characters, that the text is the passage without those (IsMasked) and   *)
(* untouched on their left (Untouched), so that offsets still hold.        *)
(***************************************************************************)
EXTENDS Platform, FiniteSetTheorems, SequenceTheorems, TLAPS

-----------------------------------------------------------------------------
(* Collections, ingestion and questions. *)

Valid == {s \in Settings : Knowledge!ValidSetting(s)}

Job == {Knowledge!Idle} \cup [step : {"queued", "read"}, set : Valid]
       \cup [step : {"ready", "error"}]

\* The sensitivities a question carries until it is answered.
AskIsCovered(q) ==
    /\ q.step \in {"idle", "asked", "found", "answered"}
    /\ q.step \in {"asked", "found"} =>
          /\ {"step", "floor", "named"} \subseteq DOMAIN q
          /\ q.floor \in Knowledge!Sensitivity /\ q.named \in Knowledge!Sensitivity
          /\ q.named >= q.floor

SentInv ==
    /\ sent.floor \in Knowledge!Sensitivity /\ sent.named \in Knowledge!Sensitivity
    /\ Knowledge!SentIsCovered

KnowledgeInv ==
    /\ setting \in [Collection -> Valid]
    /\ job \in [File -> Job]
    /\ points \subseteq [file : File, redacted : BOOLEAN]
    /\ AskIsCovered(ask)
    /\ SentInv

-----------------------------------------------------------------------------
LEMMA IdleIsCovered == AskIsCovered(Knowledge!Idle)
BY DEF AskIsCovered, Knowledge!Idle

LEMMA KnowledgeInit == ASSUME Knowledge!KnowledgeAssumption
PROVE Knowledge!Init => KnowledgeInv
<1> SUFFICES ASSUME Knowledge!Init PROVE KnowledgeInv
  OBVIOUS
<1>1. job \in [File -> Job]
  BY DEF Knowledge!Init, Job
<1>2. SentInv
  BY DEF Knowledge!Init, SentInv, Knowledge!SentIsCovered, Knowledge!Nothing,
         Knowledge!Sensitivity, Knowledge!Public, Knowledge!Pii
<1> QED
  BY <1>1, <1>2, IdleIsCovered DEF Knowledge!Init, KnowledgeInv, Valid

\* A setting names a sensitivity of the four.
LEMMA ValidFields ==
    ASSUME Knowledge!KnowledgeAssumption, NEW s \in Valid
    PROVE  s.sensitivity \in 0..3
BY DEF Knowledge!KnowledgeAssumption, Valid, Knowledge!Sensitivity,
       Knowledge!Public, Knowledge!Pii

LEMMA JobFields ==
    ASSUME Knowledge!KnowledgeAssumption, KnowledgeInv, NEW f \in File,
           job[f].step \in {"queued", "read"}
    PROVE  job[f] \in [step : {"queued", "read"}, set : Valid]
BY DEF KnowledgeInv, Job, Knowledge!Idle

-----------------------------------------------------------------------------
(* Collections and ingestion. *)

LEMMA UpdateStep ==
    ASSUME KnowledgeInv, NEW c \in Collection, NEW s \in Settings,
           Knowledge!Update(c, s)
    PROVE  KnowledgeInv'
<1>1. setting' \in [Collection -> Valid]
  BY DEF KnowledgeInv, Knowledge!Update, Valid
<1> QED
  BY <1>1 DEF KnowledgeInv, Knowledge!Update, SentInv, Knowledge!SentIsCovered

\* What is embedded or shown to a vision model is named by the job's own
\* setting, or as high as there is.
LEMMA IngestStep ==
    ASSUME Knowledge!KnowledgeAssumption, KnowledgeInv, NEW f \in File,
           Knowledge!Ingest(f)
    PROVE  KnowledgeInv'
<1> DEFINE Same == SentInv /\ UNCHANGED sent => SentInv'
           Moved == job' \in [File -> Job]
<1>0. Same
  BY DEF SentInv, Knowledge!SentIsCovered
<1>1. CASE Knowledge!Upload(f)
  <2>1. setting[Home[f]] \in Valid
    BY DEF Knowledge!KnowledgeAssumption, KnowledgeInv
  <2>2. Moved
    BY <1>1, <2>1 DEF Knowledge!Upload, KnowledgeInv, Job
  <2> QED
    BY <1>0, <1>1, <2>2 DEF Knowledge!Upload, KnowledgeInv
<1>2. ASSUME job[f].step = "queued" PROVE Knowledge!ToScan(f) \in [File -> Job]
  <2>1. job[f] \in [step : {"queued", "read"}, set : Valid]
    BY <1>2, JobFields
  <2>2. [job[f] EXCEPT !.step = "read"] \in Job
    BY <2>1 DEF Job
  <2> QED
    BY <2>2 DEF Knowledge!ToScan, KnowledgeInv
<1>3. \A how \in {"ready", "error"} : Knowledge!Over(f, how) \in [File -> Job]
  BY DEF Knowledge!Over, KnowledgeInv, Job
<1>4. CASE Knowledge!ReadLocally(f)
  BY <1>0, <1>2, <1>4 DEF Knowledge!ReadLocally, KnowledgeInv
<1>5. CASE Knowledge!ReadByVision(f)
  <2>1. job[f].set.sensitivity \in 0..3
    BY <1>5, JobFields, ValidFields DEF Knowledge!ReadByVision
  <2>2. SentInv'
    BY <1>5, <2>1
       DEF Knowledge!ReadByVision, Knowledge!Send, SentInv,
           Knowledge!SentIsCovered, Knowledge!Sensitivity, Knowledge!Public,
           Knowledge!Pii
  <2> QED
    BY <1>2, <1>5, <2>2 DEF Knowledge!ReadByVision, KnowledgeInv
<1>6. CASE Knowledge!Drop(f)
  BY <1>0, <1>3, <1>6 DEF Knowledge!Drop, KnowledgeInv
<1>7. CASE Knowledge!Embed(f)
  <2>1. job[f].set.sensitivity \in 0..3
    BY <1>7, JobFields, ValidFields DEF Knowledge!Embed
  <2>2. /\ Knowledge!EmbedSensitivity(f) \in 0..3
        /\ Knowledge!EmbedSensitivity(f) >= job[f].set.sensitivity
    BY <2>1 DEF Knowledge!EmbedSensitivity, Knowledge!Pii
  <2>3. SentInv'
    BY <1>7, <2>1, <2>2
       DEF Knowledge!Embed, Knowledge!Send, SentInv, Knowledge!SentIsCovered,
           Knowledge!Sensitivity, Knowledge!Public, Knowledge!Pii
  <2>4. points' \subseteq [file : File, redacted : BOOLEAN]
    <3>1. Knowledge!Redacted(f) \in BOOLEAN
      BY DEF Knowledge!Redacted
    <3> QED
      BY <1>7, <3>1 DEF Knowledge!Embed, KnowledgeInv
  <2> QED
    BY <1>3, <1>7, <2>3, <2>4 DEF Knowledge!Embed, KnowledgeInv
<1>8. CASE Knowledge!RefuseEmbed(f)
  BY <1>0, <1>3, <1>8 DEF Knowledge!RefuseEmbed, KnowledgeInv
<1> QED
  BY <1>1, <1>4, <1>5, <1>6, <1>7, <1>8 DEF Knowledge!Ingest

-----------------------------------------------------------------------------
(* Questions. *)

\* A step of the question that sends nothing.
LEMMA OneQuestion ==
    ASSUME KnowledgeInv, UNCHANGED <<setting, job, points, sent>>,
           AskIsCovered(ask')
    PROVE  KnowledgeInv'
<1>1. AskIsCovered(ask)'
  BY DEF AskIsCovered
<1> QED
  BY <1>1 DEF KnowledgeInv, SentInv, Knowledge!SentIsCovered

\* Of naturals up to a bound one is the greatest.
LEMMA Greatest ==
    ASSUME NEW n \in Nat, NEW S \in SUBSET (0..n), S # {}
    PROVE  \E x \in S : \A y \in S : x >= y
<1> DEFINE Above(x) == {y \in S : y >= x}
           T == {Above(x) : x \in S}
<1>1. IsFiniteSet(S)
  BY FS_BoundedSetOfNaturals
<1>2. \A x \in S : Above(x) \in FiniteSubsetsOf(S)
  <2>1. SUFFICES ASSUME NEW x \in S PROVE Above(x) \in FiniteSubsetsOf(S)
    OBVIOUS
  <2>2. Above(x) \in SUBSET S
    OBVIOUS
  <2> HIDE DEF Above
  <2>3. IsFiniteSet(Above(x))
    BY <1>1, <2>2, FS_Subset
  <2> QED
    BY <2>2, <2>3 DEF FiniteSubsetsOf
<1>3. T \subseteq FiniteSubsetsOf(S) /\ T # {}
  <2> HIDE DEF Above
  <2> QED
    BY <1>2
<1>4. PICK A \in T : \A B \in T : ~ (<<B, A>> \in StrictSubsetOrdering(S))
  <2>1. IsWellFoundedOn(StrictSubsetOrdering(S), FiniteSubsetsOf(S))
    BY FS_StrictSubsetOrderingWellFounded
  <2> HIDE DEF T
  <2> QED
    BY <1>3, <2>1, WFMin
<1>5. PICK x \in S : A = Above(x)
  OBVIOUS
<1>6. ASSUME NEW y \in S, y > x PROVE FALSE
  <2>1. \A z \in S : z \in Nat
    OBVIOUS
  <2>2. x \in Above(x)
    BY <2>1
  <2>3. x \notin Above(y)
    BY <1>6, <2>1
  <2>4. ASSUME NEW z \in Above(y) PROVE z \in Above(x)
    BY <1>6, <2>1
  <2>5. Above(y) \in SUBSET S /\ Above(x) \in SUBSET S /\ Above(y) \in T
    OBVIOUS
  <2> HIDE DEF Above, T
  <2>6. <<Above(y), Above(x)>> \in StrictSubsetOrdering(S)
    BY <2>2, <2>3, <2>4, <2>5 DEF StrictSubsetOrdering
  <2> QED
    BY <1>4, <1>5, <2>5, <2>6
<1> QED
  BY <1>6

\* There is a highest among the collections' levels.
LEMMA HighestLevel ==
    ASSUME Knowledge!KnowledgeAssumption, KnowledgeInv
    PROVE  Knowledge!Max(Knowledge!Levels) \in Knowledge!Levels /\ Knowledge!Levels \subseteq 0..3
<1>1. Knowledge!Levels \subseteq 0..3 /\ Knowledge!Levels # {}
  BY ValidFields
     DEF Knowledge!Levels, KnowledgeInv, Knowledge!KnowledgeAssumption
<1>2. \E x \in Knowledge!Levels : \A y \in Knowledge!Levels : x >= y
  BY <1>1, Greatest
<1> QED
  BY <1>1, <1>2 DEF Knowledge!Max

\* An agent that may read its collections is at least as sensitive as they are.
LEMMA ChatStep ==
    ASSUME Knowledge!KnowledgeAssumption, KnowledgeInv, NEW a \in Agent,
           Knowledge!Chat(a)
    PROVE  KnowledgeInv'
<1>1. /\ Knowledge!Max(Knowledge!Levels) \in 0..3
      /\ Knowledge!Max(Knowledge!Levels) <= AgentLevel[a]
  BY HighestLevel DEF Knowledge!Chat, Knowledge!MayRead
<1>2. AgentLevel[a] \in 0..3
  BY DEF Knowledge!KnowledgeAssumption, Knowledge!Sensitivity, Knowledge!Public,
         Knowledge!Pii
<1>3. AskIsCovered(ask')
  BY <1>1, <1>2
     DEF Knowledge!Chat, Knowledge!Asked, AskIsCovered, Knowledge!Sensitivity,
         Knowledge!Public, Knowledge!Pii
<1> QED
  BY <1>3, OneQuestion DEF Knowledge!Chat

LEMMA QueryStep ==
    ASSUME Knowledge!KnowledgeAssumption, KnowledgeInv, NEW c \in Collection,
           Knowledge!Query(c)
    PROVE  KnowledgeInv'
<1>1. setting[c].sensitivity \in 0..3
  BY ValidFields DEF KnowledgeInv
<1>2. AskIsCovered(ask')
  BY <1>1
     DEF Knowledge!Query, Knowledge!Asked, AskIsCovered, Knowledge!Sensitivity,
         Knowledge!Public, Knowledge!Pii
<1> QED
  BY <1>2, OneQuestion DEF Knowledge!Query

LEMMA RetrieveStep ==
    ASSUME KnowledgeInv, Knowledge!Retrieve PROVE KnowledgeInv'
<1>1. AskIsCovered(ask')
  BY DEF Knowledge!Retrieve, KnowledgeInv, AskIsCovered
<1> QED
  BY <1>1, OneQuestion DEF Knowledge!Retrieve

LEMMA GenerateStep ==
    ASSUME KnowledgeInv, NEW positions, Knowledge!Generate(positions)
    PROVE KnowledgeInv'
<1>1. SentInv'
  BY DEF Knowledge!Generate, Knowledge!Send, KnowledgeInv, AskIsCovered,
         SentInv, Knowledge!SentIsCovered
<1>2. AskIsCovered(ask)'
  <2>1. CASE Knowledge!Resolves(positions, ask.hits)
    BY <2>1 DEF Knowledge!Generate, Knowledge!Answered, AskIsCovered
  <2>2. CASE ~ Knowledge!Resolves(positions, ask.hits)
    BY <2>2 DEF Knowledge!Generate, KnowledgeInv, AskIsCovered
  <2> QED
    BY <2>1, <2>2
<1> QED
  BY <1>1, <1>2 DEF Knowledge!Generate, KnowledgeInv

LEMMA AnswerStep ==
    ASSUME KnowledgeInv, Knowledge!Answer PROVE KnowledgeInv'
<1>1. CASE Knowledge!Degrade
  <2>1. AskIsCovered(ask')
    BY <1>1 DEF Knowledge!Degrade, Knowledge!Answered, AskIsCovered
  <2> QED
    BY <1>1, <2>1, OneQuestion DEF Knowledge!Degrade
<1>2. CASE Knowledge!Refuse \/ Knowledge!Finish
  BY <1>2, OneQuestion, IdleIsCovered DEF Knowledge!Refuse, Knowledge!Finish
<1> QED
  BY <1>1, <1>2, RetrieveStep, GenerateStep DEF Knowledge!Answer

-----------------------------------------------------------------------------
LEMMA KnowledgeStep ==
    ASSUME Knowledge!KnowledgeAssumption, KnowledgeInv,
           [Knowledge!Next]_(Knowledge!vars)
    PROVE KnowledgeInv'
<1>1. CASE UNCHANGED Knowledge!vars
  BY <1>1
     DEF Knowledge!vars, KnowledgeInv, SentInv, Knowledge!SentIsCovered,
         AskIsCovered
<1> QED
  BY <1>1, UpdateStep, IngestStep, ChatStep, QueryStep, AnswerStep
     DEF Knowledge!Next

LEMMA KnowledgeInvariant == ASSUME Knowledge!KnowledgeAssumption
PROVE Knowledge!Spec => []KnowledgeInv
<1>1. KnowledgeInv /\ [Knowledge!Next]_(Knowledge!vars) => KnowledgeInv'
  BY KnowledgeStep
<1> QED
  BY KnowledgeInit, <1>1, PTL DEF Knowledge!Spec

\* Settings, jobs, passages and questions keep their types.
LEMMA KnowledgeTypes == ASSUME Knowledge!KnowledgeAssumption
PROVE Knowledge!Spec => []Knowledge!TypeOK
<1>1. KnowledgeInv => Knowledge!TypeOK
  <2> SUFFICES ASSUME KnowledgeInv PROVE Knowledge!TypeOK
    OBVIOUS
  <2>1. \A f \in File : job[f].step \in {"idle", "queued", "read", "ready", "error"}
    BY DEF KnowledgeInv, Job, Knowledge!Idle
  <2> QED
    BY <2>1 DEF KnowledgeInv, Valid, AskIsCovered, SentInv, Knowledge!TypeOK
<1> QED
  BY KnowledgeInvariant, <1>1, PTL

\* Every text goes to a model under a sensitivity at least that of the
\* collection as its upload or its question found it.
LEMMA KnowledgeCoverage == ASSUME Knowledge!KnowledgeAssumption
PROVE Knowledge!Spec => []Knowledge!SentIsCovered
<1>1. KnowledgeInv => Knowledge!SentIsCovered
  BY DEF KnowledgeInv, SentInv
<1> QED
  BY KnowledgeInvariant, <1>1, PTL
-----------------------------------------------------------------------------
(* What an answer rests on. *)

\* What a question's hits come to: within the cap, or the best passage alone.
Fits(hits) ==
    Knowledge!TokensOf(hits) <= TotalTokenCap \/ Len(hits) = 1

\* The hits a question carries from its search to its answer.
FoundFits(q) ==
    q.step = "found" =>
        /\ {"hits", "left"} \subseteq DOMAIN q
        /\ \E n \in Nat : DOMAIN q.hits = 1..n /\ Len(q.hits) = n
        /\ Fits(q.hits)

GroundInv ==
    /\ IsFiniteSet(points)
    /\ FoundFits(ask)
    /\ Knowledge!AnswerIsGrounded

LEMMA NoTokens == Knowledge!TokensOf(<<>>) = 0
<1>1. DOMAIN <<>> = {}
  OBVIOUS
<1> QED
  BY <1>1
     DEF Knowledge!TokensOf, Knowledge!FoldLeft, Knowledge!MapThenFoldSet

\* What is kept of a ranking is a prefix of it, and it fits.
LEMMA KeptFits ==
    ASSUME Knowledge!KnowledgeAssumption, NEW P, NEW n \in Nat,
           NEW ranking \in [1..n -> P]
    PROVE  LET hits == SubSeq(ranking, 1, Knowledge!Kept(ranking))
           IN  /\ \E m \in Nat : DOMAIN hits = 1..m /\ Len(hits) = m
               /\ Fits(hits)
<1> DEFINE S == {0} \cup {k \in DOMAIN ranking :
                            \A j \in 2..k :
                                Knowledge!TokensOf(SubSeq(ranking, 1, j))
                                    <= TotalTokenCap}
           top == Knowledge!Kept(ranking)
           hits == SubSeq(ranking, 1, top)
<1>1. top \in S
  <2>1. S \in SUBSET (0..n) /\ S # {}
    OBVIOUS
  <2>2. top = Knowledge!Max(S)
    BY DEF Knowledge!Kept
  <2> HIDE DEF S, top
  <2>3. \E x \in S : \A y \in S : x >= y
    BY <2>1, Greatest
  <2> QED
    BY <2>2, <2>3 DEF Knowledge!Max
<1>2. top \in 0..n
  BY <1>1
<1>3. \A i \in 1..top : ranking[i] \in P
  BY <1>2
<1>4. hits \in Seq(P) /\ Len(hits) = top
  <2> HIDE DEF top
  <2> QED
    BY <1>2, <1>3, SubSeqProperties
<1>5. Fits(hits)
  <2>1. CASE top = 0
    <3>1. hits = <<>>
      BY <1>4, <2>1
    <3> HIDE DEF hits, top
    <3> QED
      BY <3>1, NoTokens DEF Fits, Knowledge!KnowledgeAssumption
  <2>2. CASE top = 1
    BY <1>4, <2>2 DEF Fits
  <2>3. CASE top >= 2
    <3>1. top \in 2..top
      BY <1>2, <2>3
    <3>2. Knowledge!TokensOf(SubSeq(ranking, 1, top)) <= TotalTokenCap
      <4>1. top \in DOMAIN ranking
        BY <1>2, <2>3
      <4>2. \A j \in 2..top :
              Knowledge!TokensOf(SubSeq(ranking, 1, j)) <= TotalTokenCap
        BY <1>1, <2>3
      <4> HIDE DEF top
      <4> QED
        BY <3>1, <4>2
    <3> QED
      BY <3>2 DEF Fits
  <2> QED
    BY <1>2, <2>1, <2>2, <2>3
<1> HIDE DEF top, hits
<1>6. DOMAIN hits = 1..top /\ top \in Nat
  BY <1>2, <1>4
<1> QED
  BY <1>4, <1>5, <1>6 DEF hits, top

\* A search ranks finitely many passages.
LEMMA RetrieveGround ==
    ASSUME Knowledge!KnowledgeAssumption, GroundInv, Knowledge!Retrieve
    PROVE  GroundInv'
<1>1. PICK ranking \in Knowledge!Rankings(ask.from) :
        ask' = [step |-> "found", floor |-> ask.floor, named |-> ask.named,
                hits |-> SubSeq(ranking, 1, Knowledge!Kept(ranking)), left |-> 2]
  BY DEF Knowledge!Retrieve
<1>2. PICK P \in SUBSET points : ranking \in Knowledge!SetToSeqs(P)
  BY DEF Knowledge!Rankings
<1>3. ranking \in [1..Cardinality(P) -> P] /\ Cardinality(P) \in Nat
  <2>1. IsFiniteSet(P)
    BY FS_Subset DEF GroundInv
  <2>2. Cardinality(P) \in Nat
    BY <2>1, FS_CardinalityType
  <2>3. Knowledge!Cardinality(P) = Cardinality(P)
    BY DEF Knowledge!Cardinality, Cardinality
  <2> QED
    BY <1>2, <2>2, <2>3 DEF Knowledge!SetToSeqs
<1>4. \A hits : hits = SubSeq(ranking, 1, Knowledge!Kept(ranking))
        => (\E m \in Nat : DOMAIN hits = 1..m /\ Len(hits) = m) /\ Fits(hits)
  BY <1>3, KeptFits
<1>5. FoundFits(ask')
  BY <1>1, <1>4 DEF FoundFits
<1>6. ask'.step = "found" /\ UNCHANGED points
  BY <1>1 DEF Knowledge!Retrieve
<1> QED
  BY <1>5, <1>6 DEF GroundInv, FoundFits, Fits, Knowledge!AnswerIsGrounded

\* A cited position is one of the hits the model was shown.
LEMMA GenerateGround ==
    ASSUME Knowledge!KnowledgeAssumption, GroundInv, NEW n \in 0..2,
           NEW positions \in [1..n -> Knowledge!Positions],
           Knowledge!Generate(positions)
    PROVE  GroundInv'
<1>1. UNCHANGED points /\ ask.step = "found"
  BY DEF Knowledge!Generate
<1>2. PICK m \in Nat : DOMAIN ask.hits = 1..m /\ Len(ask.hits) = m
  BY <1>1 DEF GroundInv, FoundFits
<1>3. Fits(ask.hits) /\ {"hits", "left"} \subseteq DOMAIN ask
  BY <1>1 DEF GroundInv, FoundFits
<1>4. CASE Knowledge!Resolves(positions, ask.hits)
  <2> DEFINE cited == Knowledge!Citations(positions, ask.hits)
  <2>1. ask' = Knowledge!Answered(positions, cited, FALSE)
    BY <1>4 DEF Knowledge!Generate
  <2>2. /\ ask'.step = "answered" /\ ask'.hits = ask.hits
        /\ ask'.text = positions /\ ask'.cited = cited /\ ask'.degraded = FALSE
    BY <2>1 DEF Knowledge!Answered
  <2>3. cited # <<>>
    <3>1. positions # <<>>
      BY <1>4 DEF Knowledge!Resolves
    <3>2. n # 0
      <4>1. SUFFICES ASSUME n = 0 PROVE positions = <<>>
        BY <3>1
      <4>2. DOMAIN positions = {}
        BY <4>1
      <4>3. positions \in Seq(Knowledge!Positions) /\ Len(positions) = 0
        BY <4>1, <4>2
      <4> QED
        BY <4>3, EmptySeq
    <3> QED
      BY <3>2 DEF Knowledge!Citations
  <2>4. Len(cited) = Len(positions)
    BY DEF Knowledge!Citations
  <2>5. ASSUME NEW k \in DOMAIN cited
        PROVE  positions[k] \in DOMAIN ask.hits
                 /\ cited[k] = ask.hits[positions[k]].file
    BY <1>2, <1>4 DEF Knowledge!Citations, Knowledge!Resolves
  <2>6. Knowledge!AnswerIsGrounded'
    <3> HIDE DEF cited
    <3> QED
      BY <1>3, <2>2, <2>3, <2>4, <2>5 DEF Knowledge!AnswerIsGrounded, Fits
  <2> QED
    BY <1>1, <2>2, <2>6 DEF GroundInv, FoundFits
<1>5. CASE ~ Knowledge!Resolves(positions, ask.hits)
  <2>1. ask' = [ask EXCEPT !.left = @ - 1]
    BY <1>5 DEF Knowledge!Generate
  <2>2. ask'.step = "found" /\ ask'.hits = ask.hits /\ DOMAIN ask' = DOMAIN ask
    BY <1>1, <1>3, <2>1
  <2> QED
    BY <1>1, <1>2, <1>3, <2>2
       DEF GroundInv, FoundFits, Fits, Knowledge!AnswerIsGrounded
<1> QED
  BY <1>4, <1>5

\* Outside of an answer there is nothing to rest on.
LEMMA OtherGround ==
    ASSUME IsFiniteSet(points'), GroundInv,
           UNCHANGED ask \/ ask'.step \notin {"found", "answered"}
    PROVE  GroundInv'
<1>1. CASE UNCHANGED ask
  BY <1>1 DEF GroundInv, FoundFits, Fits, Knowledge!AnswerIsGrounded
<1>2. CASE ask'.step \notin {"found", "answered"}
  BY <1>2 DEF GroundInv, FoundFits, Knowledge!AnswerIsGrounded
<1> QED
  BY <1>1, <1>2

LEMMA GroundStep ==
    ASSUME Knowledge!KnowledgeAssumption, GroundInv,
           [Knowledge!Next]_(Knowledge!vars)
    PROVE  GroundInv'
<1>1. IsFiniteSet(points)
  BY DEF GroundInv
<1>2. CASE UNCHANGED Knowledge!vars
  BY <1>1, <1>2, OtherGround DEF Knowledge!vars
<1>3. CASE \E c \in Collection, s \in Settings : Knowledge!Update(c, s)
  BY <1>1, <1>3, OtherGround DEF Knowledge!Update
<1>4. CASE \E f \in File : Knowledge!Ingest(f)
  <2>1. PICK f \in File : Knowledge!Ingest(f)
    BY <1>4
  <2>2. CASE Knowledge!Embed(f)
    <3>1. IsFiniteSet(points \cup
                        {[file |-> f, redacted |-> Knowledge!Redacted(f)]})
      BY <1>1, FS_AddElement
    <3> QED
      BY <2>2, <3>1, OtherGround DEF Knowledge!Embed
  <2>3. UNCHANGED ask /\ (~ Knowledge!Embed(f) => UNCHANGED points)
    BY <2>1
       DEF Knowledge!Ingest, Knowledge!Upload, Knowledge!ReadLocally,
           Knowledge!ReadByVision, Knowledge!Drop, Knowledge!Embed,
           Knowledge!RefuseEmbed
  <2> QED
    BY <1>1, <2>2, <2>3, OtherGround
<1>5. CASE \/ \E a \in Agent : Knowledge!Chat(a)
           \/ \E c \in Collection : Knowledge!Query(c)
  BY <1>1, <1>5, OtherGround
     DEF Knowledge!Chat, Knowledge!Query, Knowledge!Asked
<1>6. CASE Knowledge!Degrade
  <2>1. ask.step = "found" /\ UNCHANGED points
    BY <1>6 DEF Knowledge!Degrade
  <2>2. /\ ask'.step = "answered" /\ ask'.hits = ask.hits
        /\ ask'.text = <<>> /\ ask'.cited = <<>> /\ ask'.degraded = TRUE
    BY <1>6 DEF Knowledge!Degrade, Knowledge!Answered
  <2>3. Fits(ask.hits)
    BY <2>1 DEF GroundInv, FoundFits
  <2> QED
    BY <1>1, <2>1, <2>2, <2>3
       DEF GroundInv, FoundFits, Fits, Knowledge!AnswerIsGrounded
<1>7. CASE Knowledge!Refuse \/ Knowledge!Finish
  BY <1>1, <1>7, OtherGround
     DEF Knowledge!Refuse, Knowledge!Finish, Knowledge!Idle
<1> QED
  BY <1>2, <1>3, <1>4, <1>5, <1>6, <1>7, RetrieveGround, GenerateGround
     DEF Knowledge!Next, Knowledge!Answer

\* An answer cites the passages the model was shown, and those fit the cap.
LEMMA KnowledgeGround == ASSUME Knowledge!KnowledgeAssumption
PROVE Knowledge!Spec => []Knowledge!AnswerIsGrounded
<1>1. Knowledge!Init => GroundInv
  BY FS_EmptySet
     DEF Knowledge!Init, Knowledge!Idle, GroundInv, FoundFits,
         Knowledge!AnswerIsGrounded
<1>2. GroundInv /\ [Knowledge!Next]_(Knowledge!vars) => GroundInv'
  BY GroundStep
<1>3. GroundInv => Knowledge!AnswerIsGrounded
  BY DEF GroundInv
<1> QED
  BY <1>1, <1>2, <1>3, PTL DEF Knowledge!Spec

-----------------------------------------------------------------------------
(* Passages. *)

\* Induction over the numbers, for the set of those that have a property.
LEMMA Induction ==
    ASSUME NEW S, 0 \in S, \A n \in Nat : n \in S => n + 1 \in S
    PROVE  Nat \subseteq S
<1> SUFFICES ASSUME NEW z \in Nat, z \notin S PROVE FALSE
  OBVIOUS
<1> DEFINE T == {n \in 0..z : \A m \in 0..n : m \in S}
<1>1. 0 \in T
  OBVIOUS
<1>2. PICK x \in T : \A y \in T : x >= y
  <2>1. T \in SUBSET (0..z) /\ T # {}
    BY <1>1
  <2> HIDE DEF T
  <2> QED
    BY <2>1, Greatest
<1>3. x \in S /\ x # z
  OBVIOUS
<1>4. x + 1 \in T
  BY <1>3
<1> QED
  BY <1>2, <1>4

-----------------------------------------------------------------------------
(* Work done on the elements of a sequence, one after the other: what a     *)
(* fold computes, and the work after each element.                          *)

\* What one element adds to the work: a paragraph to the passages, a step or
\* an action of a branch to a compiled recipe.
Does(loop, work, x) ==
    CASE loop = "pack"    -> Texts!PackUnlessBlank(work, x)
      [] loop = "emit"    -> Compiler!Emit(work, x)
      [] loop = "connect" -> Compiler!Connect(work, x)

\* What the fold computes for each set of places.
Computes(g, loop, base, seq, D) ==
    g = [s \in SUBSET D |->
           IF s = {} THEN base
           ELSE Does(loop, g[s \ {Texts!Max(s)}], seq[Texts!Max(s)])]

\* The element no other is above is the greatest.
LEMMA MaxOf ==
    ASSUME NEW S, NEW x \in S, \A y \in S : y \in Nat /\ x >= y
    PROVE  Texts!Max(S) = x
<1>1. \A y \in S : (\A z \in S : y >= z) => y = x
  <2> SUFFICES ASSUME NEW y \in S, \A z \in S : y >= z PROVE y = x
    OBVIOUS
  <2>1. x \in Nat /\ y \in Nat /\ x >= y /\ y >= x
    OBVIOUS
  <2> QED
    BY <2>1
<1> QED
  BY <1>1 DEF Texts!Max

\* The last place of the first k, and those before it.
LEMMA MaxOfInterval ==
    ASSUME NEW k \in Nat, k >= 1
    PROVE  /\ Texts!Max(1..k) = k
           /\ (1..k) \ {k} = 1..(k - 1)
           /\ 1..k # {}
<1>1. k \in 1..k /\ \A y \in 1..k : y \in Nat /\ k >= y
  OBVIOUS
<1>2. Texts!Max(1..k) = k
  BY <1>1, MaxOf
<1>3. (1..k) \ {k} = 1..(k - 1)
  OBVIOUS
<1> QED
  BY <1>1, <1>2, <1>3

\* The fold computes something for the places up to any.
LEMMA ComputesExists ==
    ASSUME NEW loop, NEW base, NEW seq, NEW n \in Nat
    PROVE  \E g : Computes(g, loop, base, seq, 1..n)
<1> DEFINE S == {k \in Nat : \E g : Computes(g, loop, base, seq, 1..k)}
<1>1. 0 \in S
  <2> DEFINE g == [s \in SUBSET (1..0) |-> base]
  <2>1. Computes(g, loop, base, seq, 1..0)
    BY DEF Computes
  <2> QED
    BY <2>1
<1>2. ASSUME NEW k \in Nat, k \in S PROVE k + 1 \in S
  <2>1. PICK g : Computes(g, loop, base, seq, 1..k)
    BY <1>2
  <2> DEFINE old == SUBSET (1..k)
             new == SUBSET (1..(k + 1))
             f == [s \in new |->
                     IF k + 1 \notin s THEN g[s]
                     ELSE Does(loop, g[s \ {k + 1}], seq[k + 1])]
  <2>2. ASSUME NEW s \in new
        PROVE  f[s] = IF s = {} THEN base
                      ELSE Does(loop, f[s \ {Texts!Max(s)}], seq[Texts!Max(s)])
    <3>1. CASE k + 1 \in s
      <4>1. Texts!Max(s) = k + 1
        <5>1. \A y \in s : y \in Nat /\ k + 1 >= y
          OBVIOUS
        <5> QED
          BY <3>1, <5>1, MaxOf
      <4>2. s \ {k + 1} \in new /\ k + 1 \notin s \ {k + 1}
        OBVIOUS
      <4>3. f[s \ {k + 1}] = g[s \ {k + 1}]
        BY <4>2
      <4>4. f[s] = Does(loop, g[s \ {k + 1}], seq[k + 1])
        BY <3>1
      <4>5. s # {}
        BY <3>1
      <4> HIDE DEF f
      <4> QED
        BY <4>1, <4>3, <4>4, <4>5
    <3>2. CASE k + 1 \notin s
      <4>1. s \in old
        BY <3>2
      <4>2. f[s] = g[s]
        BY <3>2
      <4>3. g[s] = IF s = {} THEN base
                   ELSE Does(loop, g[s \ {Texts!Max(s)}], seq[Texts!Max(s)])
        BY <2>1, <4>1 DEF Computes
      <4>4. s \ {Texts!Max(s)} \in new /\ k + 1 \notin s \ {Texts!Max(s)}
        BY <3>2
      <4>5. f[s \ {Texts!Max(s)}] = g[s \ {Texts!Max(s)}]
        BY <4>4
      <4> HIDE DEF f
      <4> QED
        BY <4>2, <4>3, <4>5
    <3> QED
      BY <3>1, <3>2
  <2>3. Computes(f, loop, base, seq, 1..(k + 1))
    <3>1. f = [s \in new |-> f[s]]
      OBVIOUS
    <3> HIDE DEF f
    <3> QED
      BY <2>2, <3>1 DEF Computes
  <2> HIDE DEF f
  <2> QED
    BY <2>3
<1> HIDE DEF S
<1>3. Nat \subseteq S
  BY <1>1, <1>2, Induction
<1> QED
  BY <1>3 DEF S

\* The work after each element, up to the result after the last.
InTurn(work, loop, base, seq, n, result) ==
    /\ work[0] = base
    /\ \A k \in 1..n : work[k] = Does(loop, work[k - 1], seq[k])
    /\ result = work[n]

\* A loop computed by its sets goes through the elements in turn.
LEMMA LoopRounds ==
    ASSUME NEW g, NEW loop, NEW base, NEW seq, NEW n \in Nat,
           Computes(g, loop, base, seq, 1..n)
    PROVE  \E work : InTurn(work, loop, base, seq, n, g[1..n])
<1> DEFINE work == [k \in 0..n |-> g[1..k]]
<1>1. work[0] = base
  <2>1. g[{}] = base
    BY DEF Computes
  <2>2. 1..0 = {}
    OBVIOUS
  <2> QED
    BY <2>1, <2>2
<1>2. ASSUME NEW k \in 1..n
      PROVE  work[k] = Does(loop, work[k - 1], seq[k])
  <2>0. k \in Nat /\ k >= 1
    OBVIOUS
  <2>1. Texts!Max(1..k) = k
    BY <2>0, MaxOfInterval
  <2>2. (1..k) \ {k} = 1..(k - 1) /\ 1..k # {}
    BY <2>0, MaxOfInterval
  <2>3. 1..k \in SUBSET (1..n)
    OBVIOUS
  <2>4. g[1..k] = Does(loop, g[1..(k - 1)], seq[k])
    BY <2>1, <2>2, <2>3 DEF Computes
  <2> QED
    BY <2>4
<1>3. g[1..n] = work[n]
  OBVIOUS
<1> HIDE DEF work
<1>4. InTurn(work, loop, base, seq, n, g[1..n])
  BY <1>1, <1>2, <1>3 DEF InTurn
<1> QED
  BY <1>4

\* What FoldLeft chooses when it packs a text.
Packs(h, words, D) ==
    h = [s \in SUBSET D |->
           IF s = {} THEN Texts!Nothing
           ELSE Texts!PackUnlessBlank(h[s \ {Texts!Max(s)}], words[Texts!Max(s)])]

\* The work after each paragraph, up to that after the last.
PacksInTurn(work, text) ==
    /\ work[0] = Texts!Nothing
    /\ \A k \in 1..Len(text) :
          work[k] = Texts!PackUnlessBlank(work[k - 1], Texts!Paragraphs(text)[k])
    /\ Texts!Packed(text) = work[Len(text)]

\* Packing goes through the paragraphs in turn.
LEMMA Rounds ==
    ASSUME NEW text \in Seq(Nat)
    PROVE  \E work : PacksInTurn(work, text)
<1> DEFINE n == Len(text)
           words == Texts!Paragraphs(text)
           g == CHOOSE h : Packs(h, words, DOMAIN words)
<1>1. n \in Nat /\ DOMAIN words = 1..n
  BY DEF Texts!Paragraphs
<1>2. Texts!Packed(text) = g[1..n]
  <2>1. Texts!Packed(text) = g[DOMAIN words]
    BY DEF Texts!Packed, Texts!FoldLeft, Texts!MapThenFoldSet, Packs
  <2> QED
    BY <1>1, <2>1
<1> HIDE DEF n, words
<1>3. \A h : Packs(h, words, 1..n) <=> Computes(h, "pack", Texts!Nothing, words, 1..n)
  BY DEF Packs, Computes, Does
<1>4. Packs(g, words, 1..n)
  <2>1. \E h : Packs(h, words, 1..n)
    BY <1>1, <1>3, ComputesExists
  <2> QED
    BY <1>1, <2>1
<1> HIDE DEF g
<1>5. PICK work : InTurn(work, "pack", Texts!Nothing, words, n, g[1..n])
  <2>1. Computes(g, "pack", Texts!Nothing, words, 1..n)
    BY <1>3, <1>4
  <2> QED
    BY <1>1, <2>1, LoopRounds
<1>6. /\ work[0] = Texts!Nothing /\ g[1..n] = work[n]
      /\ \A k \in 1..n : work[k] = Texts!PackUnlessBlank(work[k - 1], words[k])
  BY <1>5 DEF InTurn, Does
<1>7. PacksInTurn(work, text)
  BY <1>2, <1>6 DEF words, n, PacksInTurn
<1> QED
  BY <1>7

-----------------------------------------------------------------------------
(* The words of sequences put one after the other. *)

Joins(f, seqs, n) ==
    f = [i \in 1..n |-> IF i = 1 THEN seqs[i] ELSE f[i - 1] \o seqs[i]]

\* Such a function exists, by induction over the places.
LEMMA JoinsExists ==
    ASSUME NEW seqs, NEW n \in Nat PROVE \E f : Joins(f, seqs, n)
<1> DEFINE S == {k \in Nat : \E f : Joins(f, seqs, k)}
<1>1. 0 \in S
  <2> DEFINE f == [i \in 1..0 |-> 0]
  <2>1. Joins(f, seqs, 0)
    BY DEF Joins
  <2> QED
    BY <2>1
<1>2. ASSUME NEW k \in Nat, k \in S PROVE k + 1 \in S
  <2>1. PICK f : Joins(f, seqs, k)
    BY <1>2
  <2> DEFINE next == [i \in 1..(k + 1) |->
                        IF i = k + 1
                        THEN IF i = 1 THEN seqs[i] ELSE f[i - 1] \o seqs[i]
                        ELSE f[i]]
  <2>2. ASSUME NEW i \in 1..(k + 1)
        PROVE  next[i] = IF i = 1 THEN seqs[i] ELSE next[i - 1] \o seqs[i]
    <3>1. CASE i = k + 1
      <4>1. i # 1 => i - 1 \in 1..(k + 1) /\ i - 1 # k + 1
        BY <3>1
      <4>2. i # 1 => next[i - 1] = f[i - 1]
        BY <4>1
      <4>3. next[i] = IF i = 1 THEN seqs[i] ELSE f[i - 1] \o seqs[i]
        BY <3>1
      <4> HIDE DEF next
      <4> QED
        BY <4>2, <4>3
    <3>2. CASE i # k + 1
      <4>1. i \in 1..k
        BY <3>2
      <4>2. f[i] = IF i = 1 THEN seqs[i] ELSE f[i - 1] \o seqs[i]
        BY <2>1, <4>1 DEF Joins
      <4>3. next[i] = f[i] /\ (i # 1 => next[i - 1] = f[i - 1])
        BY <4>1
      <4> HIDE DEF next
      <4> QED
        BY <4>2, <4>3
    <3> QED
      BY <3>1, <3>2
  <2>3. Joins(next, seqs, k + 1)
    <3>1. next = [i \in 1..(k + 1) |-> next[i]]
      OBVIOUS
    <3> HIDE DEF next
    <3> QED
      BY <2>2, <3>1 DEF Joins
  <2> HIDE DEF next
  <2> QED
    BY <2>3
<1> HIDE DEF S
<1>3. Nat \subseteq S
  BY <1>1, <1>2, Induction
<1> QED
  BY <1>3 DEF S

\* With one sequence more, its elements follow.
LEMMA NextJoin ==
    ASSUME NEW f, NEW seqs, NEW n \in Nat, Joins(f, seqs, n),
           NEW k \in Nat, k + 1 \in 1..n
    PROVE  f[k + 1] = IF k = 0 THEN seqs[k + 1] ELSE f[k] \o seqs[k + 1]
<1>1. \A i \in 1..n : f[i] = IF i = 1 THEN seqs[i] ELSE f[i - 1] \o seqs[i]
  BY DEF Joins
<1>2. (k + 1) - 1 = k /\ (k + 1 = 1 <=> k = 0)
  OBVIOUS
<1>3. f[k + 1] = IF k + 1 = 1 THEN seqs[k + 1] ELSE f[(k + 1) - 1] \o seqs[k + 1]
  BY <1>1
<1> QED
  BY <1>2, <1>3

\* FlattenSeq is what such a function ends with.
LEMMA FlattenIsJoined ==
    ASSUME NEW seqs, NEW n \in Nat, Len(seqs) = n, n >= 1
    PROVE  \E f : Joins(f, seqs, n) /\ Texts!FlattenSeq(seqs) = f[n]
<1> DEFINE f == CHOOSE h : Joins(h, seqs, Len(seqs))
<1>1. Joins(f, seqs, n)
  BY JoinsExists
<1>2. Texts!FlattenSeq(seqs) = f[Len(seqs)]
  BY DEF Texts!FlattenSeq, Joins
<1> HIDE DEF f
<1> QED
  BY <1>1, <1>2

\* Two of them agree as far as their sequences do.
LEMMA JoinsAgree ==
    ASSUME NEW f, NEW g, NEW s, NEW t, NEW m \in Nat, NEW n \in Nat,
           Joins(f, s, m), Joins(g, t, n), m <= n,
           \A i \in 1..m : s[i] = t[i]
    PROVE  \A i \in 1..m : f[i] = g[i]
<1> DEFINE S == {k \in Nat : k \in 1..m => f[k] = g[k]}
<1>1. 0 \in S
  OBVIOUS
<1>2. ASSUME NEW k \in Nat, k \in S PROVE k + 1 \in S
  <2> SUFFICES ASSUME k + 1 \in 1..m PROVE f[k + 1] = g[k + 1]
    OBVIOUS
  <2>1. k + 1 \in 1..n /\ (k + 1 # 1 => k \in 1..m)
    OBVIOUS
  <2>2. /\ f[k + 1] = IF k = 0 THEN s[k + 1] ELSE f[k] \o s[k + 1]
        /\ g[k + 1] = IF k = 0 THEN t[k + 1] ELSE g[k] \o t[k + 1]
    BY <2>1, NextJoin
  <2> QED
    BY <1>2, <2>1, <2>2
<1> HIDE DEF S
<1>3. Nat \subseteq S
  BY <1>1, <1>2, Induction
<1> QED
  BY <1>3 DEF S

\* Nothing is joined to nothing.
LEMMA FlattenEmpty == Texts!FlattenSeq(<<>>) = <<>>
BY DEF Texts!FlattenSeq

\* The last sequence is joined last.
LEMMA FlattenAppend ==
    ASSUME NEW X, NEW s \in Seq(Seq(X)), NEW x \in Seq(X)
    PROVE  Texts!FlattenSeq(Append(s, x)) = Texts!FlattenSeq(s) \o x
<1> DEFINE m == Len(s)
           t == Append(s, x)
<1>1. /\ m \in Nat /\ Len(t) = m + 1 /\ t[m + 1] = x
      /\ \A i \in 1..m : t[i] = s[i]
  BY AppendProperties
<1>2. PICK g : Joins(g, t, m + 1) /\ Texts!FlattenSeq(t) = g[m + 1]
  <2> HIDE DEF t, m
  <2> QED
    BY <1>1, FlattenIsJoined
<1>3. CASE m = 0
  <2>1. s = <<>>
    BY <1>3, EmptySeq
  <2>2. g[m + 1] = x
    BY <1>1, <1>2, <1>3 DEF Joins
  <2> QED
    BY <1>2, <2>1, <2>2, FlattenEmpty, ConcatEmptySeq
<1>4. CASE m >= 1
  <2>1. PICK f : Joins(f, s, m) /\ Texts!FlattenSeq(s) = f[m]
    BY <1>1, <1>4, FlattenIsJoined
  <2> HIDE DEF t, m
  <2>2. f[m] = g[m]
    BY <1>1, <1>2, <1>4, <2>1, JoinsAgree
  <2>3. g[m + 1] = g[m] \o t[m + 1]
    <3>1. m + 1 \in Nat /\ m + 1 \in 1..(m + 1) /\ m # 0
      BY <1>1, <1>4
    <3> QED
      BY <1>1, <1>2, <3>1, NextJoin
  <2> QED
    BY <1>1, <1>2, <2>1, <2>2, <2>3 DEF t
<1> QED
  BY <1>1, <1>3, <1>4

\* What is joined has the elements of its parts.
LEMMA FlattenType ==
    ASSUME NEW X, NEW s \in Seq(Seq(X)) PROVE Texts!FlattenSeq(s) \in Seq(X)
<1> DEFINE S == {k \in Nat : \A t \in Seq(Seq(X)) :
                               Len(t) = k => Texts!FlattenSeq(t) \in Seq(X)}
<1>1. 0 \in S
  <2>1. \A t \in Seq(Seq(X)) : Len(t) = 0 => t = <<>>
    BY EmptySeq
  <2> QED
    BY <2>1, FlattenEmpty, EmptySeq
<1>2. ASSUME NEW k \in Nat, k \in S PROVE k + 1 \in S
  <2> SUFFICES ASSUME NEW t \in Seq(Seq(X)), Len(t) = k + 1
               PROVE  Texts!FlattenSeq(t) \in Seq(X)
    OBVIOUS
  <2>1. PICK u \in Seq(Seq(X)), x \in Seq(X) : t = Append(u, x)
    <3>1. t # <<>>
      BY EmptySeq
    <3> QED
      BY <3>1, SequenceEmptyOrAppend
  <2>2. Len(u) = k
    BY <2>1, AppendProperties
  <2>3. Texts!FlattenSeq(u) \in Seq(X)
    BY <1>2, <2>2
  <2> QED
    BY <2>1, <2>3, FlattenAppend, ConcatProperties
<1> HIDE DEF S
<1>3. Nat \subseteq S
  BY <1>1, <1>2, Induction
<1>4. Len(s) \in Nat
  OBVIOUS
<1> QED
  BY <1>3, <1>4 DEF S

-----------------------------------------------------------------------------
(* A paragraph that is cut on its own. *)

\* How many pieces there are, rounded up.
LEMMA Ceiling ==
    ASSUME NEW L \in Nat, NEW M \in Nat \ {0}, NEW q, q = (L + M - 1) \div M
    PROVE  /\ q \in Nat
           /\ q * M >= L
           /\ \A k \in Nat : k < q => k * M < L
<1> DEFINE a == L + M - 1
<1>1. a \in Nat /\ q = a \div M
  OBVIOUS
<1> HIDE DEF a
<1>2. q \in Nat /\ M * q <= a /\ a < M * q + M
  BY <1>1
<1>3. q * M = M * q
  BY <1>2
<1>4. q * M >= L
  BY <1>2, <1>3 DEF a
<1>5. ASSUME NEW k \in Nat, k < q PROVE k * M < L
  <2>1. PICK d \in Nat : q = k + 1 + d
    <3>1. q - k - 1 \in Nat /\ q = k + 1 + (q - k - 1)
      BY <1>2, <1>5
    <3> QED
      BY <3>1
  <2>2. q * M = k * M + M + d * M /\ d * M >= 0 /\ k * M \in Nat
    BY <2>1
  <2> QED
    BY <1>2, <1>3, <2>2 DEF a
<1> QED
  BY <1>2, <1>4, <1>5

\* Of two numbers the smaller.
LEMMA MinOfTwo ==
    ASSUME NEW a \in Nat, NEW b \in Nat
    PROVE  Texts!Min({a, b}) = IF a <= b THEN a ELSE b
<1>1. \A x \in {a, b} : (\A y \in {a, b} : x <= y)
                          => x = IF a <= b THEN a ELSE b
  OBVIOUS
<1>2. (IF a <= b THEN a ELSE b) \in {a, b}
        /\ \A y \in {a, b} : (IF a <= b THEN a ELSE b) <= y
  OBVIOUS
<1> QED
  BY <1>1, <1>2 DEF Texts!Min

\* A piece is not empty, nor longer than a passage may be, and goes on where
\* the one before it ended.
LEMMA PieceProperties ==
    ASSUME Texts!PassagesAssumption, NEW X, NEW words \in Seq(X)
    PROVE  /\ Len(Texts!Pieces(words)) \in Nat
           /\ Texts!Pieces(words) \in Seq(Seq(X))
           /\ Len(Texts!Pieces(words)) * MaxTokens >= Len(words)
           /\ \A k \in 1..Len(Texts!Pieces(words)) :
                 LET first == (k - 1) * MaxTokens
                     last == Texts!Min({k * MaxTokens, Len(words)})
                 IN  /\ first \in Nat /\ last \in Nat
                     /\ first < last /\ last <= first + MaxTokens
                     /\ last <= Len(words)
                     /\ first = Texts!Min({first, Len(words)})
                     /\ Texts!Pieces(words)[k] = SubSeq(words, first + 1, last)
                     /\ Len(Texts!Pieces(words)[k]) \in 1..MaxTokens
<1> DEFINE L == Len(words)
           M == MaxTokens
           q == (L + M - 1) \div M
<1>1. L \in Nat /\ M \in Nat \ {0}
  BY DEF Texts!PassagesAssumption
<1>2. q \in Nat /\ q * M >= L /\ \A k \in Nat : k < q => k * M < L
  <2> HIDE DEF L, M
  <2> QED
    BY <1>1, Ceiling
<1>3. Texts!Pieces(words) = [k \in 1..q |->
                         SubSeq(words, (k - 1) * M + 1, Texts!Min({k * M, L}))]
  BY DEF Texts!Pieces
<1> HIDE DEF q
<1>4. ASSUME NEW k \in 1..q
      PROVE  LET first == (k - 1) * M
                 last == Texts!Min({k * M, L})
             IN  /\ first \in Nat /\ last \in Nat
                 /\ first < last /\ last <= first + M
                 /\ last <= L
                 /\ first = Texts!Min({first, L})
                 /\ SubSeq(words, first + 1, last) \in Seq(X)
                 /\ Len(SubSeq(words, first + 1, last)) \in 1..M
  <2> DEFINE first == (k - 1) * M
             last == Texts!Min({k * M, L})
  <2>1. k - 1 \in Nat /\ k - 1 < q
    BY <1>2
  <2>2. first \in Nat /\ first < L
    <3> HIDE DEF L
    <3> QED
      BY <1>1, <1>2, <2>1
  <2>3. k * M \in Nat /\ k * M = first + M
    <3> HIDE DEF L
    <3> QED
      BY <1>1, <1>2, <2>1
  <2>4. last = IF k * M <= L THEN k * M ELSE L
    <3> HIDE DEF L, M
    <3> QED
      BY <1>1, <2>3, MinOfTwo
  <2>5. first = Texts!Min({first, L})
    <3> HIDE DEF L, M, first
    <3> QED
      BY <1>1, <2>2, MinOfTwo
  <2> HIDE DEF first, last
  <2>6. last \in Nat /\ first < last /\ last <= first + M /\ last <= L
    BY <1>1, <2>2, <2>3, <2>4
  <2>7. \A i \in (first + 1)..last : words[i] \in X
    BY <2>2, <2>6
  <2>8. /\ SubSeq(words, first + 1, last) \in Seq(X)
        /\ Len(SubSeq(words, first + 1, last)) = last - (first + 1) + 1
    BY <2>2, <2>6, <2>7, SubSeqProperties
  <2>9. Len(SubSeq(words, first + 1, last)) \in 1..M
    BY <1>1, <2>2, <2>6, <2>8
  <2> QED
    BY <2>2, <2>5, <2>6, <2>8, <2>9 DEF first, last
<1>5. Texts!Pieces(words) \in [1..q -> Seq(X)]
  BY <1>3, <1>4
<1>6. Texts!Pieces(words) \in Seq(Seq(X)) /\ Len(Texts!Pieces(words)) = q
  BY <1>2, <1>5
<1>7. \A k \in 1..q : Texts!Pieces(words)[k] =
          SubSeq(words, (k - 1) * M + 1, Texts!Min({k * M, L}))
  BY <1>3
<1> QED
  BY <1>2, <1>4, <1>6, <1>7

\* The first k pieces of a paragraph are its first words.
CutSoFar(s, words, k) ==
    Texts!FlattenSeq(s \o SubSeq(Texts!Pieces(words), 1, k)) =
        Texts!FlattenSeq(s) \o SubSeq(words, 1, Texts!Min({k * MaxTokens, Len(words)}))

\* The pieces of a paragraph are its words.
LEMMA PiecesKeepWords ==
    ASSUME Texts!PassagesAssumption, NEW X, NEW s \in Seq(Seq(X)), NEW words \in Seq(X)
    PROVE  /\ s \o Texts!Pieces(words) \in Seq(Seq(X))
           /\ Texts!FlattenSeq(s \o Texts!Pieces(words)) = Texts!FlattenSeq(s) \o words
<1> DEFINE P == Texts!Pieces(words)
           q == Len(P)
           L == Len(words)
           M == MaxTokens
           S == {k \in Nat : k <= q => CutSoFar(s, words, k)}
<1>1. q \in Nat /\ P \in Seq(Seq(X)) /\ q * M >= L
  BY PieceProperties
<1>2. L \in Nat /\ M \in Nat \ {0}
  BY DEF Texts!PassagesAssumption
<1>3. \A k \in 0..q : SubSeq(P, 1, k) \in Seq(Seq(X))
  <2> SUFFICES ASSUME NEW k \in 0..q PROVE SubSeq(P, 1, k) \in Seq(Seq(X))
    OBVIOUS
  <2> HIDE DEF P
  <2>1. \A i \in 1..k : P[i] \in Seq(X)
    BY <1>1
  <2> QED
    BY <1>1, <2>1, SubSeqProperties
<1>4. Texts!FlattenSeq(s) \in Seq(X)
  BY FlattenType
<1>5. 0 \in S
  <2>1. Texts!Min({0 * M, L}) = 0
    <3>1. 0 * M = 0
      BY <1>2
    <3> HIDE DEF L, M
    <3> QED
      BY <1>2, <3>1, MinOfTwo
  <2>2. SubSeq(P, 1, 0) = <<>> /\ SubSeq(words, 1, 0) = <<>>
    BY SubSeqEmpty
  <2>3. s \o <<>> = s /\ Texts!FlattenSeq(s) \o <<>> = Texts!FlattenSeq(s)
    BY <1>4, ConcatEmptySeq
  <2>4. CutSoFar(s, words, 0)
    BY <2>1, <2>2, <2>3 DEF CutSoFar
  <2> QED
    BY <2>4
<1>6. ASSUME NEW k \in Nat, k \in S PROVE k + 1 \in S
  <2> SUFFICES ASSUME k + 1 <= q PROVE CutSoFar(s, words, k + 1)
    <3> HIDE DEF q
    <3> QED
      OBVIOUS
  <2>0. CutSoFar(s, words, k)
    <3> HIDE DEF q
    <3> QED
      BY <1>1, <1>6
  <2> DEFINE first == Texts!Min({k * M, L})
             last == Texts!Min({(k + 1) * M, L})
             before == s \o SubSeq(P, 1, k)
  <2>1. Texts!FlattenSeq(before) = Texts!FlattenSeq(s) \o SubSeq(words, 1, first)
    BY <2>0 DEF CutSoFar
  <2>2. k + 1 \in 1..q /\ k \in 0..q /\ (k + 1) - 1 = k
    BY <1>1
  <2>3. /\ first \in Nat /\ last \in Nat /\ first < last /\ last <= L
        /\ P[k + 1] = SubSeq(words, first + 1, last)
    BY <2>2, PieceProperties
  <2> HIDE DEF P, q, L, M, first, last
  <2>4. SubSeq(P, 1, k + 1) = SubSeq(P, 1, k) \o <<P[k + 1]>>
    <3>1. 1 \in 1..Len(P) /\ k + 1 \in 1..Len(P)
      BY <1>1, <2>2 DEF q
    <3> QED
      BY <1>1, <2>2, <3>1, SubSeqRecursiveSecond
  <2>5. P[k + 1] \in Seq(X)
    BY <1>1, <2>2 DEF q
  <2>6. before \in Seq(Seq(X))
    BY <1>3, <2>2, ConcatProperties
  <2>7. s \o SubSeq(P, 1, k + 1) = Append(before, P[k + 1])
    <3>1. <<P[k + 1]>> \in Seq(Seq(X))
      BY <2>5
    <3>2. s \o SubSeq(P, 1, k + 1) = before \o <<P[k + 1]>>
      BY <1>3, <2>2, <2>4, <3>1, ConcatAssociative
    <3> HIDE DEF before
    <3> QED
      BY <2>5, <2>6, <3>2, AppendIsConcat
  <2>8. Texts!FlattenSeq(Append(before, P[k + 1])) = Texts!FlattenSeq(before) \o P[k + 1]
    <3> HIDE DEF before
    <3> QED
      BY <2>5, <2>6, FlattenAppend
  <2>9. /\ SubSeq(words, 1, first) \in Seq(X)
        /\ SubSeq(words, 1, first) \o SubSeq(words, first + 1, last)
             = SubSeq(words, 1, last)
    <3>1. \A i \in 1..first : words[i] \in X
      BY <2>3 DEF L
    <3>2. SubSeq(words, 1, first) \in Seq(X)
      BY <2>3, <3>1, SubSeqProperties
    <3>3. 1 \in 1..Len(words) + 1 /\ first \in (1 - 1)..Len(words)
            /\ last \in first..Len(words)
      BY <1>2, <2>3 DEF L
    <3> QED
      BY <3>2, <3>3, ConcatAdjacentSubSeq
  <2>10. Texts!FlattenSeq(before) \o P[k + 1] = Texts!FlattenSeq(s) \o SubSeq(words, 1, last)
    <3>1. Texts!FlattenSeq(before) \o P[k + 1] =
            Texts!FlattenSeq(s) \o (SubSeq(words, 1, first) \o P[k + 1])
      <4>1. (Texts!FlattenSeq(s) \o SubSeq(words, 1, first)) \o P[k + 1] =
              Texts!FlattenSeq(s) \o (SubSeq(words, 1, first) \o P[k + 1])
        <5>1. \A a, b, c \in Seq(X) : (a \o b) \o c = a \o (b \o c)
          BY ConcatAssociative
        <5>2. SubSeq(words, 1, first) \in Seq(X)
          BY <2>9
        <5> QED
          BY <1>4, <2>5, <5>1, <5>2
      <4> HIDE DEF before
      <4> QED
        BY <2>1, <4>1
    <3> QED
      BY <2>3, <2>9, <3>1
  <2>11. Texts!FlattenSeq(s \o SubSeq(P, 1, k + 1)) =
           Texts!FlattenSeq(s) \o SubSeq(words, 1, last)
    <3> HIDE DEF before
    <3> QED
      BY <2>7, <2>8, <2>10
  <2> QED
    BY <2>11 DEF CutSoFar, P, last, M, L
<1> HIDE DEF S
<1>7. q \in S
  BY <1>1, <1>5, <1>6, Induction
<1>8. Texts!Min({q * M, L}) = L
  <2>1. q * M \in Nat
    BY <1>1, <1>2
  <2>2. Texts!Min({q * M, L}) = IF q * M <= L THEN q * M ELSE L
    <3> HIDE DEF q, M, L
    <3> QED
      BY <1>2, <2>1, MinOfTwo
  <2> HIDE DEF q, M, L
  <2> QED
    BY <1>1, <1>2, <2>1, <2>2
<1>9. SubSeq(P, 1, q) = P /\ SubSeq(words, 1, L) = words
  BY <1>1, SubSeqFull
<1>10. Texts!FlattenSeq(s \o P) = Texts!FlattenSeq(s) \o words
  <2>1. CutSoFar(s, words, q)
    <3> HIDE DEF q
    <3> QED
      BY <1>1, <1>7 DEF S
  <2>2. Texts!FlattenSeq(s \o SubSeq(P, 1, q)) =
          Texts!FlattenSeq(s) \o SubSeq(words, 1, Texts!Min({q * M, L}))
    BY <2>1 DEF CutSoFar
  <2> HIDE DEF P, q, L, M
  <2> QED
    BY <1>8, <1>9, <2>2
<1>11. s \o P \in Seq(Seq(X))
  <2> HIDE DEF P
  <2> QED
    BY <1>1, ConcatProperties
<1> QED
  BY <1>10, <1>11

-----------------------------------------------------------------------------
(* What has been packed, and what is being packed. *)

\* A word is a paragraph and a place in it.
Word == Nat \X Nat

\* Passages the index accepts: not empty, and no longer than the limit.
Short(passages) == \A i \in DOMAIN passages : Len(passages[i]) \in 1..MaxTokens

\* What packing has come to is within the limits throughout.
Sound(work) ==
    /\ work \in [passages : Seq(Seq(Word)), current : Seq(Word)]
    /\ Short(work.passages)
    /\ Len(work.current) <= MaxTokens

\* The words of a work, in their order.
Told(work) == Texts!FlattenSeq(work.passages) \o work.current

\* Flushing loses no word.
LEMMA FlushKeeps ==
    ASSUME Texts!PassagesAssumption, NEW work, Sound(work)
    PROVE  /\ Texts!Flush(work) \in Seq(Seq(Word))
           /\ Short(Texts!Flush(work))
           /\ Texts!FlattenSeq(Texts!Flush(work)) = Told(work)
<1>1. /\ work.passages \in Seq(Seq(Word)) /\ work.current \in Seq(Word)
      /\ Short(work.passages) /\ Len(work.current) <= MaxTokens
  BY DEF Sound
<1>2. CASE work.current = <<>>
  BY <1>1, <1>2, FlattenType, ConcatEmptySeq DEF Texts!Flush, Told
<1>3. CASE work.current # <<>>
  <2>1. Len(work.current) \in 1..MaxTokens
    <3>1. Len(work.current) \in Nat \ {0}
      BY <1>1, <1>3, EmptySeq
    <3> QED
      BY <1>1, <3>1 DEF Texts!PassagesAssumption
  <2>2. /\ Append(work.passages, work.current) \in Seq(Seq(Word))
        /\ Len(Append(work.passages, work.current)) = Len(work.passages) + 1
        /\ \A i \in 1..Len(work.passages) :
              Append(work.passages, work.current)[i] = work.passages[i]
        /\ Append(work.passages, work.current)[Len(work.passages) + 1]
             = work.current
    BY <1>1, AppendProperties
  <2>3. Short(Append(work.passages, work.current))
    BY <1>1, <2>1, <2>2 DEF Short
  <2>4. Texts!FlattenSeq(Append(work.passages, work.current)) = Told(work)
    BY <1>1, FlattenAppend DEF Told
  <2> QED
    BY <1>3, <2>2, <2>3, <2>4 DEF Texts!Flush
<1> QED
  BY <1>2, <1>3

\* Short passages after short passages.
LEMMA ShortConcat ==
    ASSUME NEW s \in Seq(Seq(Word)), NEW t \in Seq(Seq(Word)), Short(s), Short(t)
    PROVE  Short(s \o t)
<1>1. /\ s \o t \in Seq(Seq(Word)) /\ Len(s \o t) = Len(s) + Len(t)
      /\ \A i \in 1..Len(s) + Len(t) :
            (s \o t)[i] = IF i <= Len(s) THEN s[i] ELSE t[i - Len(s)]
  BY ConcatProperties
<1>2. ASSUME NEW i \in 1..Len(s) + Len(t) PROVE Len((s \o t)[i]) \in 1..MaxTokens
  <2>1. CASE i <= Len(s)
    BY <1>1, <2>1 DEF Short
  <2>2. CASE ~ (i <= Len(s))
    <3>1. i - Len(s) \in 1..Len(t)
      BY <2>2
    <3> QED
      BY <1>1, <2>2, <3>1 DEF Short
  <2> QED
    BY <2>1, <2>2
<1> QED
  BY <1>1, <1>2 DEF Short

\* A round of the loop leaves no word out and adds none.
LEMMA PackKeeps ==
    ASSUME Texts!PassagesAssumption, NEW work, Sound(work), NEW words \in Seq(Word)
    PROVE  /\ Sound(Texts!PackUnlessBlank(work, words))
           /\ Told(Texts!PackUnlessBlank(work, words)) = Told(work) \o words
<1>1. /\ work.passages \in Seq(Seq(Word)) /\ work.current \in Seq(Word)
      /\ Short(work.passages) /\ Len(work.current) <= MaxTokens
      /\ work = [passages |-> work.passages, current |-> work.current]
  BY DEF Sound
<1>2. /\ Texts!FlattenSeq(work.passages) \in Seq(Word)
      /\ Told(work) \in Seq(Word)
  BY <1>1, FlattenType, ConcatProperties DEF Told
<1>3. /\ Texts!Flush(work) \in Seq(Seq(Word)) /\ Short(Texts!Flush(work))
      /\ Texts!FlattenSeq(Texts!Flush(work)) = Told(work)
  BY FlushKeeps
<1>4. MaxTokens \in Nat \ {0} /\ Len(words) \in Nat /\ Len(work.current) \in Nat
  BY <1>1 DEF Texts!PassagesAssumption
<1>5. CASE Texts!Blank(words)
  <2>1. words = <<>>
    BY <1>5 DEF Texts!Blank
  <2> QED
    BY <1>2, <1>5, <2>1, ConcatEmptySeq DEF Texts!PackUnlessBlank
<1>6. CASE ~ Texts!Blank(words) /\ Len(words) > MaxTokens
  <2> DEFINE p == Texts!Flush(work) \o Texts!Pieces(words)
  <2>1. Texts!PackUnlessBlank(work, words) = [passages |-> p, current |-> <<>>]
    BY <1>6 DEF Texts!PackUnlessBlank, Texts!Pack
  <2>2. p \in Seq(Seq(Word)) /\ Texts!FlattenSeq(p) = Told(work) \o words
    BY <1>3, PiecesKeepWords
  <2>3. Short(p)
    <3>1. Texts!Pieces(words) \in Seq(Seq(Word))
      BY PieceProperties
    <3>2. \A k \in 1..Len(Texts!Pieces(words)) : Len(Texts!Pieces(words)[k]) \in 1..MaxTokens
      BY PieceProperties
    <3>3. Short(Texts!Pieces(words))
      BY <3>1, <3>2 DEF Short
    <3> QED
      BY <1>3, <3>1, <3>3, ShortConcat
  <2> HIDE DEF p
  <2>4. Sound([passages |-> p, current |-> <<>>])
    BY <1>4, <2>2, <2>3, EmptySeq DEF Sound
  <2>5. Told([passages |-> p, current |-> <<>>]) = Texts!FlattenSeq(p)
    BY <2>2, FlattenType, ConcatEmptySeq DEF Told
  <2> QED
    BY <2>1, <2>2, <2>4, <2>5
<1>7. CASE /\ ~ Texts!Blank(words) /\ ~ (Len(words) > MaxTokens)
           /\ Len(work.current) + Len(words) > MaxTokens /\ work.current # <<>>
  <2>1. Texts!PackUnlessBlank(work, words) = [passages |-> Texts!Flush(work), current |-> words]
    BY <1>7 DEF Texts!PackUnlessBlank, Texts!Pack
  <2>2. Sound([passages |-> Texts!Flush(work), current |-> words])
    BY <1>3, <1>4, <1>7 DEF Sound
  <2>3. Told([passages |-> Texts!Flush(work), current |-> words]) = Told(work) \o words
    BY <1>3 DEF Told
  <2> QED
    BY <2>1, <2>2, <2>3
<1>8. CASE /\ ~ Texts!Blank(words) /\ ~ (Len(words) > MaxTokens)
           /\ ~ (/\ Len(work.current) + Len(words) > MaxTokens
                 /\ work.current # <<>>)
  <2> DEFINE c == work.current \o words
  <2>1. Texts!PackUnlessBlank(work, words) =
          [passages |-> work.passages, current |-> c]
    <3>1. Texts!PackUnlessBlank(work, words) = [work EXCEPT !.current = c]
      BY <1>8 DEF Texts!PackUnlessBlank, Texts!Pack
    <3> HIDE DEF c
    <3> QED
      BY <1>1, <3>1
  <2>2. c \in Seq(Word) /\ Len(c) = Len(work.current) + Len(words)
    BY <1>1, ConcatProperties
  <2>3. Len(c) <= MaxTokens
    <3>1. work.current = <<>> => Len(work.current) = 0
      BY EmptySeq
    <3> QED
      BY <1>4, <1>8, <2>2, <3>1
  <2>4. Texts!FlattenSeq(work.passages) \o c = Told(work) \o words
    <3>1. \A a, b, d \in Seq(Word) : (a \o b) \o d = a \o (b \o d)
      BY ConcatAssociative
    <3> QED
      BY <1>1, <1>2, <3>1 DEF Told
  <2> HIDE DEF c
  <2>5. Sound([passages |-> work.passages, current |-> c])
    BY <1>1, <2>2, <2>3 DEF Sound
  <2>6. Told([passages |-> work.passages, current |-> c]) = Told(work) \o words
    BY <2>4 DEF Told
  <2> QED
    BY <2>1, <2>5, <2>6
<1> QED
  BY <1>5, <1>6, <1>7, <1>8

\* The passages of a text hold its words, in their order, and are short.
LEMMA NoWordIsLost ==
    ASSUME Texts!PassagesAssumption, NEW text \in Seq(Nat)
    PROVE  /\ Texts!FlattenSeq(Texts!ChunkText(text)) = Texts!FlattenSeq(Texts!Paragraphs(text))
           /\ Short(Texts!ChunkText(text))
<1> DEFINE n == Len(text)
           words == Texts!Paragraphs(text)
<1>1. n \in Nat /\ words \in Seq(Seq(Word)) /\ Len(words) = n
  <2>1. \A p \in 1..n : Texts!Words(p, text[p]) \in Seq(Word)
    <3> SUFFICES ASSUME NEW p \in 1..n PROVE Texts!Words(p, text[p]) \in Seq(Word)
      OBVIOUS
    <3>1. text[p] \in Nat /\ p \in Nat
      OBVIOUS
    <3>2. Texts!Words(p, text[p]) \in [1..text[p] -> Word]
      BY <3>1 DEF Texts!Words, Word
    <3> QED
      BY <3>1, <3>2
  <2>2. n \in Nat /\ DOMAIN text = 1..n
    OBVIOUS
  <2>3. words \in [1..n -> Seq(Word)]
    BY <2>1, <2>2 DEF Texts!Paragraphs
  <2> HIDE DEF words, n
  <2> QED
    BY <2>2, <2>3
<1>2a. PICK work : PacksInTurn(work, text)
  BY Rounds
<1>2. /\ work[0] = Texts!Nothing
      /\ \A k \in 1..n : work[k] = Texts!PackUnlessBlank(work[k - 1], words[k])
      /\ Texts!Packed(text) = work[n]
  BY <1>2a DEF PacksInTurn
<1> HIDE DEF words, n
<1> DEFINE KeptSoFar(k) == /\ Sound(work[k])
                           /\ Told(work[k]) = Texts!FlattenSeq(SubSeq(words, 1, k))
           S == {k \in Nat : k <= n => KeptSoFar(k)}
<1>3. 0 \in S
  <2>1. Sound(Texts!Nothing)
    BY EmptySeq DEF Texts!Nothing, Sound, Short, Texts!PassagesAssumption
  <2>2. Told(Texts!Nothing) = <<>>
    BY FlattenEmpty, EmptySeq, ConcatEmptySeq DEF Texts!Nothing, Told
  <2>3. SubSeq(words, 1, 0) = <<>>
    BY SubSeqEmpty
  <2>4. KeptSoFar(0)
    BY <1>2, <2>1, <2>2, <2>3, FlattenEmpty
  <2> HIDE DEF KeptSoFar
  <2> QED
    BY <2>4
<1>4. ASSUME NEW k \in Nat, k \in S PROVE k + 1 \in S
  <2> SUFFICES ASSUME k + 1 <= n PROVE KeptSoFar(k + 1)
    <3> HIDE DEF KeptSoFar
    <3> QED
      OBVIOUS
  <2>1. KeptSoFar(k)
    <3> HIDE DEF KeptSoFar
    <3> QED
      BY <1>1, <1>4
  <2>2. k + 1 \in 1..n /\ (k + 1) - 1 = k /\ k \in 0..n
    BY <1>1
  <2>3. work[k + 1] = Texts!PackUnlessBlank(work[k], words[k + 1])
    BY <1>2, <2>2
  <2>4. words[k + 1] \in Seq(Word)
    BY <1>1, <2>2
  <2>5. /\ Sound(work[k + 1])
        /\ Told(work[k + 1]) = Told(work[k]) \o words[k + 1]
    BY <2>1, <2>3, <2>4, PackKeeps
  <2>6. SubSeq(words, 1, k) \in Seq(Seq(Word))
    <3>1. \A i \in 1..k : words[i] \in Seq(Word)
      BY <1>1, <2>2
    <3> QED
      BY <2>2, <3>1, SubSeqProperties
  <2>7. SubSeq(words, 1, k + 1) = Append(SubSeq(words, 1, k), words[k + 1])
    <3>1. 1 \in 1..Len(words) /\ k + 1 \in 1..Len(words)
      BY <1>1, <2>2
    <3>2. SubSeq(words, 1, k + 1) = SubSeq(words, 1, k) \o <<words[k + 1]>>
      BY <1>1, <2>2, <3>1, SubSeqRecursiveSecond
    <3> QED
      BY <2>4, <2>6, <3>2, AppendIsConcat
  <2>8. Texts!FlattenSeq(SubSeq(words, 1, k + 1)) =
          Texts!FlattenSeq(SubSeq(words, 1, k)) \o words[k + 1]
    BY <2>4, <2>6, <2>7, FlattenAppend
  <2> QED
    BY <2>1, <2>5, <2>8
<1> HIDE DEF S
<1>5. n \in S
  BY <1>1, <1>3, <1>4, Induction
<1>6. Sound(Texts!Packed(text)) /\ Told(Texts!Packed(text)) = Texts!FlattenSeq(words)
  <2>1. KeptSoFar(n)
    <3> HIDE DEF KeptSoFar
    <3> QED
      BY <1>1, <1>5 DEF S
  <2>2. SubSeq(words, 1, n) = words
    BY <1>1, SubSeqFull
  <2> QED
    BY <1>2, <2>1, <2>2
<1> QED
  BY <1>6, FlushKeeps DEF Texts!ChunkText, words

\* Paragraphs of numbers of words are read, one after the other.
LEMMA TextsAreKept == ASSUME Texts!PassagesAssumption PROVE Texts!Spec => []Texts!TextIsKept
<1> DEFINE Inv == paragraphs \in Seq(Nat)
<1>1. Texts!Init => Inv
  BY EmptySeq DEF Texts!Init
<1>2. Inv /\ [Texts!Next]_(Texts!vars) => Inv'
  <2> SUFFICES ASSUME Inv, [Texts!Next]_(Texts!vars) PROVE Inv'
    OBVIOUS
  <2>1. ASSUME NEW n \in 0..MaxWords, Texts!Read(n) PROVE Inv'
    <3>1. n \in Nat
      BY DEF Texts!PassagesAssumption
    <3> QED
      BY <2>1, <3>1, AppendProperties DEF Texts!Read
  <2>2. CASE UNCHANGED paragraphs
    BY <2>2
  <2> QED
    BY <2>1, <2>2 DEF Texts!Next, Texts!Find, Texts!vars
<1>3. Inv => Texts!TextIsKept
  <2> SUFFICES ASSUME Inv PROVE Texts!TextIsKept
    OBVIOUS
  <2> QED
    BY NoWordIsLost DEF Texts!TextIsKept, Short
<1> QED
  BY <1>1, <1>2, <1>3, PTL DEF Texts!Spec

-----------------------------------------------------------------------------
(* The findings of a passage, from its end. *)

\* Findings of the passage, none of which overlaps another.
Disjoint(found) ==
    /\ found \subseteq Texts!Finding
    /\ \A f, g \in found : f # g => Texts!Apart(f, g)

\* The findings that start among the last k characters.
Later(found, k) == {f \in found : f.start + k >= Length}

\* What the fold computes for each set of findings.
Blots(h, text, found) ==
    h = [s \in SUBSET found |->
           IF s = {} THEN text ELSE Texts!Mask(h[s \ {Texts!Leftmost(s)}], Texts!Leftmost(s))]

\* The offsets of a finding.
LEMMA FindingFields ==
    ASSUME Texts!PassagesAssumption, NEW f \in Texts!Finding
    PROVE  /\ f.start \in Nat /\ f.end \in Nat /\ f.label \in Nat
           /\ f.start < f.end /\ f.end <= Length /\ f.start + 1 \in Nat
           /\ Length \in Nat
<1>1. f.start \in 0..(Length - 1) /\ f.end \in 1..Length /\ f.label \in LabelLength
  BY DEF Texts!Finding
<1>2. f.start < f.end
  BY DEF Texts!Finding
<1>3. Length \in Nat /\ f.label \in Nat
  BY <1>1 DEF Texts!PassagesAssumption
<1>4. f.start \in Nat /\ f.end \in Nat /\ f.end <= Length /\ f.start + 1 \in Nat
  BY <1>1, <1>3
<1> QED
  BY <1>2, <1>3, <1>4

\* The finding that starts before all others is replaced last.
LEMMA LeftmostIs ==
    ASSUME Texts!PassagesAssumption, NEW s \in SUBSET Texts!Finding, NEW x \in s,
           \A f \in s : f = x \/ x.start < f.start
    PROVE  Texts!Leftmost(s) = x
<1>1. \A f \in s : f.start \in Nat
  BY FindingFields
<1>2. \A f \in s : x.start <= f.start
  BY <1>1
<1>3. \A f \in s : (\A g \in s : f.start <= g.start) => f = x
  BY <1>1
<1> QED
  BY <1>2, <1>3 DEF Texts!Leftmost

\* With one character more there is at most one finding more, on the left of
\* the others.
LEMMA OneMore ==
    ASSUME Texts!PassagesAssumption, NEW found, Disjoint(found), NEW k \in Nat
    PROVE  \/ Later(found, k + 1) = Later(found, k)
           \/ \E x \in found :
                 /\ x \notin Later(found, k)
                 /\ Later(found, k + 1) = Later(found, k) \cup {x}
                 /\ \A f \in Later(found, k) : x.start < f.start
<1>1. \A f \in found : /\ f.start \in Nat /\ f.end \in Nat /\ f.start < f.end
                       /\ Length \in Nat
  BY FindingFields DEF Disjoint
<1>2. CASE \E x \in found : x.start + (k + 1) = Length
  <2>1. PICK x \in found : x.start + (k + 1) = Length
    BY <1>2
  <2>2. x \notin Later(found, k)
    BY <1>1, <2>1 DEF Later
  <2>3. \A f \in Later(found, k) : x.start < f.start
    BY <1>1, <2>1 DEF Later
  <2>4. ASSUME NEW f \in found, f.start + (k + 1) = Length PROVE f = x
    BY <1>1, <2>1, <2>4 DEF Disjoint, Texts!Apart
  <2>5. Later(found, k + 1) = Later(found, k) \cup {x}
    <3>1. ASSUME NEW f \in found
          PROVE  f.start + (k + 1) >= Length <=> f.start + k >= Length \/ f = x
      BY <1>1, <2>1, <2>4
    <3> QED
      BY <3>1 DEF Later
  <2> QED
    BY <2>2, <2>3, <2>5
<1>3. CASE ~ \E x \in found : x.start + (k + 1) = Length
  <2>1. ASSUME NEW f \in found
        PROVE  f.start + (k + 1) >= Length <=> f.start + k >= Length
    BY <1>1, <1>3
  <2> QED
    BY <2>1 DEF Later
<1> QED
  BY <1>2, <1>3

\* No finding starts after the last character; all do so after the first.
LEMMA LaterEnds ==
    ASSUME Texts!PassagesAssumption, NEW found, Disjoint(found)
    PROVE  Later(found, 0) = {} /\ Later(found, Length) = found
<1>1. \A f \in found : /\ f.start \in Nat /\ f.start < Length /\ Length \in Nat
  BY FindingFields DEF Disjoint
<1> QED
  BY <1>1 DEF Later

\* The fold is defined, by induction over the characters from the end.
LEMMA BlotsExist ==
    ASSUME Texts!PassagesAssumption, NEW text, NEW found, Disjoint(found)
    PROVE  \E h : Blots(h, text, found)
<1> DEFINE D(k) == Later(found, k)
           S == {k \in Nat : \E h : Blots(h, text, D(k))}
<1>1. 0 \in S
  <2> DEFINE h == [s \in SUBSET {} |-> text]
  <2>1. Blots(h, text, {})
    BY DEF Blots
  <2> HIDE DEF h
  <2> QED
    BY <2>1, LaterEnds
<1>2. ASSUME NEW k \in Nat, k \in S PROVE k + 1 \in S
  <2>1. PICK h : Blots(h, text, D(k))
    BY <1>2
  <2>2. CASE D(k + 1) = D(k)
    BY <2>1, <2>2
  <2>3. CASE \E x \in found :
               /\ x \notin D(k)
               /\ D(k + 1) = D(k) \cup {x}
               /\ \A f \in D(k) : x.start < f.start
    <3>1. PICK x \in found : /\ x \notin D(k)
                             /\ D(k + 1) = D(k) \cup {x}
                             /\ \A f \in D(k) : x.start < f.start
      BY <2>3
    <3>2. D(k + 1) \subseteq Texts!Finding
      BY DEF Disjoint, Later
    <3> DEFINE new == [s \in SUBSET D(k + 1) |->
                         IF x \notin s THEN h[s] ELSE Texts!Mask(h[s \ {x}], x)]
    <3> HIDE DEF D
    <3>3. ASSUME NEW s \in SUBSET D(k + 1)
          PROVE  new[s] = IF s = {} THEN text
                          ELSE Texts!Mask(new[s \ {Texts!Leftmost(s)}], Texts!Leftmost(s))
      <4>1. CASE x \in s
        <5>1. Texts!Leftmost(s) = x
          <6>1. \A f \in s : f = x \/ x.start < f.start
            BY <3>1
          <6> QED
            BY <3>2, <4>1, <6>1, LeftmostIs
        <5>2. s \ {x} \in SUBSET D(k + 1) /\ x \notin s \ {x}
          OBVIOUS
        <5>3. new[s \ {x}] = h[s \ {x}]
          BY <5>2
        <5>4. new[s] = Texts!Mask(h[s \ {x}], x) /\ s # {}
          BY <4>1
        <5> HIDE DEF new
        <5> QED
          BY <5>1, <5>3, <5>4
      <4>2. CASE x \notin s
        <5>1. s \in SUBSET D(k)
          BY <3>1, <4>2
        <5>2. h[s] = IF s = {} THEN text
                     ELSE Texts!Mask(h[s \ {Texts!Leftmost(s)}], Texts!Leftmost(s))
          BY <2>1, <5>1 DEF Blots
        <5>3. s \ {Texts!Leftmost(s)} \in SUBSET D(k + 1) /\ x \notin s \ {Texts!Leftmost(s)}
          BY <4>2
        <5>4. new[s \ {Texts!Leftmost(s)}] = h[s \ {Texts!Leftmost(s)}]
          BY <5>3
        <5>5. new[s] = h[s]
          BY <4>2
        <5> HIDE DEF new
        <5> QED
          BY <5>2, <5>4, <5>5
      <4> QED
        BY <4>1, <4>2
    <3>4. Blots(new, text, D(k + 1))
      <4>1. new = [s \in SUBSET D(k + 1) |-> new[s]]
        OBVIOUS
      <4> HIDE DEF new
      <4> QED
        BY <3>3, <4>1 DEF Blots
    <3> HIDE DEF new
    <3> QED
      BY <3>4
  <2> QED
    BY <2>2, <2>3, OneMore
<1>3. Length \in S
  <2> HIDE DEF S
  <2>1. Nat \subseteq S
    BY <1>1, <1>2, Induction
  <2> QED
    BY <2>1 DEF Texts!PassagesAssumption
<1> QED
  BY <1>3, LaterEnds

-----------------------------------------------------------------------------
(* What is left of a passage. *)

\* A character of the passage, or of a label (0).
Char == [original : Nat]

\* The places of the passage that findings cover.
Masked(found) == UNION {(f.start + 1)..f.end : f \in found}

\* The places of a text where a character of the passage stands.
Left(t) == {i \in DOMAIN t : t[i].original # 0}

\* Up to the first finding nothing has been touched.
Untouched(t, found) ==
    \A b \in 0..Length : (\A f \in found : b <= f.start) =>
        b <= Len(t) /\ \A i \in 1..b : t[i].original = i

\* A text is the passage without what the findings cover.
IsMasked(t, found) ==
    /\ t \in Seq(Char)
    /\ {t[i].original : i \in Left(t)} = (1..Length) \ Masked(found)
    /\ \A i, j \in Left(t) : i < j => t[i].original < t[j].original
    /\ Untouched(t, found)

\* Of two sequences one after the other.
LEMMA OneAfterOther ==
    ASSUME NEW X, NEW p \in Seq(X), NEW q \in Seq(X), NEW m, NEW n,
           Len(p) = m, Len(q) = n
    PROVE  /\ p \o q \in Seq(X) /\ Len(p \o q) = m + n
           /\ \A i \in 1..m + n : (p \o q)[i] = IF i <= m THEN p[i] ELSE q[i - m]
BY ConcatProperties

\* Where the characters of a masked text come from.
LEMMA MaskedText ==
    ASSUME Texts!PassagesAssumption, NEW f \in Texts!Finding, NEW t \in Seq(Char), f.end <= Len(t)
    PROVE  LET u == Texts!Mask(t, f)
               e == f.start + f.label
           IN  /\ u \in Seq(Char)
               /\ Len(u) = e + (Len(t) - f.end)
               /\ \A i \in 1..f.start : u[i] = t[i]
               /\ \A i \in (f.start + 1)..e : u[i].original = 0
               /\ \A i \in (e + 1)..Len(u) : u[i] = t[i - e + f.end]
<1>1. /\ f.start \in Nat /\ f.end \in Nat /\ f.label \in Nat /\ f.start < f.end
      /\ Len(t) \in Nat
  BY FindingFields
<1> DEFINE a == SubSeq(t, 1, f.start)
           b == Texts!Label(f)
           c == SubSeq(t, f.end + 1, Len(t))
<1>2. Texts!Min({f.start, Len(t)}) = f.start
  <2>1. \A x \in {f.start, Len(t)} : (\A y \in {f.start, Len(t)} : x <= y) => x = f.start
    BY <1>1
  <2>2. \A y \in {f.start, Len(t)} : f.start <= y
    BY <1>1
  <2> QED
    BY <2>1, <2>2 DEF Texts!Min
<1>3. Texts!Mask(t, f) = a \o b \o c
  BY <1>2 DEF Texts!Mask
<1>4. /\ a \in Seq(Char) /\ Len(a) = f.start
      /\ \A i \in 1..f.start : a[i] = t[i]
  <2>1. \A i \in 1..f.start : t[i] \in Char
    BY <1>1
  <2>2. /\ SubSeq(t, 1, f.start) \in Seq(Char)
        /\ Len(SubSeq(t, 1, f.start)) =
             IF 1 <= f.start THEN f.start - 1 + 1 ELSE 0
        /\ \A i \in 1..f.start - 1 + 1 : SubSeq(t, 1, f.start)[i] = t[1 + i - 1]
    BY <1>1, <2>1, SubSeqProperties
  <2> QED
    BY <1>1, <2>2
<1>5. /\ b \in Seq(Char) /\ Len(b) = f.label
      /\ \A i \in 1..f.label : b[i].original = 0
  <2> DEFINE n == f.label
  <2>1. b = [i \in 1..n |-> [original |-> 0]] /\ n \in Nat
    BY <1>1 DEF Texts!Label
  <2>2. [original |-> 0] \in Char
    BY DEF Char
  <2> HIDE DEF b, n
  <2>3. b \in [1..n -> Char]
    BY <2>1, <2>2
  <2>4. b \in Seq(Char) /\ Len(b) = n
    BY <2>1, <2>3
  <2>5. \A i \in 1..n : b[i].original = 0
    BY <2>1
  <2> QED
    BY <2>4, <2>5 DEF n
<1>6. /\ c \in Seq(Char) /\ Len(c) = Len(t) - f.end
      /\ \A i \in 1..(Len(t) - f.end) : c[i] = t[i + f.end]
  <2>1. \A i \in (f.end + 1)..Len(t) : t[i] \in Char
    BY <1>1
  <2>2. /\ c \in Seq(Char)
        /\ Len(c) = IF f.end + 1 <= Len(t) THEN Len(t) - (f.end + 1) + 1 ELSE 0
        /\ \A i \in 1..Len(t) - (f.end + 1) + 1 : c[i] = t[(f.end + 1) + i - 1]
    BY <1>1, <2>1, SubSeqProperties
  <2>3. ASSUME NEW i \in 1..(Len(t) - f.end) PROVE c[i] = t[i + f.end]
    <3>1. (f.end + 1) + i - 1 = i + f.end /\ i \in 1..Len(t) - (f.end + 1) + 1
      BY <1>1
    <3> HIDE DEF c
    <3> QED
      BY <2>2, <3>1
  <2> HIDE DEF c
  <2> QED
    BY <1>1, <2>2, <2>3
<1> HIDE DEF a, b, c
<1>7. /\ a \o b \in Seq(Char) /\ Len(a \o b) = f.start + f.label
      /\ \A i \in 1..f.start + f.label :
            (a \o b)[i] = IF i <= f.start THEN a[i] ELSE b[i - f.start]
  BY <1>4, <1>5, OneAfterOther
<1> DEFINE u == (a \o b) \o c
           e == f.start + f.label
<1>8. /\ u \in Seq(Char) /\ Len(u) = e + (Len(t) - f.end)
      /\ \A i \in 1..e + (Len(t) - f.end) :
            u[i] = IF i <= e THEN (a \o b)[i] ELSE c[i - e]
  <2> DEFINE l == a \o b
         r == Len(t) - f.end
  <2>1. l \in Seq(Char) /\ Len(l) = e /\ c \in Seq(Char) /\ Len(c) = r
    BY <1>6, <1>7
  <2>2. u = l \o c
    OBVIOUS
  <2> HIDE DEF l, e, r, u
  <2>3. /\ l \o c \in Seq(Char) /\ Len(l \o c) = e + r
        /\ \A i \in 1..e + r : (l \o c)[i] = IF i <= e THEN l[i] ELSE c[i - e]
    BY <2>1, OneAfterOther
  <2> QED
    BY <2>2, <2>3 DEF l, r
<1> HIDE DEF u
<1>9. ASSUME NEW i \in 1..f.start PROVE u[i] = t[i]
  <2>1. i <= e /\ i \in 1..e + (Len(t) - f.end) /\ i \in 1..f.start + f.label
    BY <1>1
  <2> QED
    BY <1>4, <1>7, <1>8, <2>1
<1>10. ASSUME NEW i \in (f.start + 1)..e PROVE u[i].original = 0
  <2>1. /\ i <= e /\ i \in 1..e + (Len(t) - f.end) /\ i \in 1..f.start + f.label
        /\ ~ (i <= f.start) /\ i - f.start \in 1..f.label
    BY <1>1
  <2> QED
    BY <1>5, <1>7, <1>8, <2>1
<1>11. ASSUME NEW i \in (e + 1)..Len(u) PROVE u[i] = t[i - e + f.end]
  <2>1. /\ ~ (i <= e) /\ i \in 1..e + (Len(t) - f.end)
        /\ i - e \in 1..(Len(t) - f.end)
    BY <1>1, <1>8
  <2> QED
    BY <1>6, <1>8, <2>1
<1> QED
  BY <1>3, <1>8, <1>9, <1>10, <1>11 DEF u

\* Masking the finding on the left of those masked so far.
LEMMA MaskKeeps ==
    ASSUME Texts!PassagesAssumption, NEW found \in SUBSET Texts!Finding, NEW x \in Texts!Finding,
           \A f \in found : x.end <= f.start,
           NEW t, IsMasked(t, found)
    PROVE  IsMasked(Texts!Mask(t, x), found \cup {x})
<1> DEFINE u == Texts!Mask(t, x)
           e == x.start + x.label
           shift(i) == i - e + x.end
<1>1. /\ x.start \in Nat /\ x.end \in Nat /\ x.label \in Nat /\ x.start < x.end
      /\ x.end <= Length /\ Length \in Nat
  BY FindingFields
<1>2. t \in Seq(Char) /\ Len(t) \in Nat /\ DOMAIN t = 1..Len(t)
  BY DEF IsMasked
<1>3. x.end <= Len(t) /\ \A i \in 1..x.end : t[i].original = i
  BY <1>1 DEF IsMasked, Untouched
<1>4. /\ u \in Seq(Char) /\ Len(u) = e + (Len(t) - x.end)
      /\ \A i \in 1..x.start : u[i] = t[i]
      /\ \A i \in (x.start + 1)..e : u[i].original = 0
      /\ \A i \in (e + 1)..Len(u) : u[i] = t[shift(i)]
  BY <1>2, <1>3, MaskedText
<1>0. e \in Nat /\ x.start <= e
  BY <1>1
<1> HIDE DEF u, e
<1>5. DOMAIN u = 1..Len(u) /\ Len(u) \in Nat
  BY <1>4
<1>6. \A i \in Left(t) : t[i].original \in Nat
  <2>1. \A i \in 1..Len(t) : t[i] \in Char
    BY <1>2
  <2>2. \A c \in Char : c.original \in Nat
    BY DEF Char
  <2> QED
    BY <1>2, <2>1, <2>2 DEF Left
<1>7. ASSUME NEW i \in Left(u)
      PROVE  \/ i \in 1..x.start /\ u[i].original = i
             \/ /\ i \in (e + 1)..Len(u)
                /\ shift(i) \in Left(t) /\ shift(i) > x.end
                /\ u[i] = t[shift(i)]
                /\ u[i].original > x.end
  <2>1. i \in 1..Len(u) /\ u[i].original # 0
    BY <1>5 DEF Left
  <2>2. CASE i \in 1..x.start
    <3>1. i \in 1..x.end
      BY <1>0, <1>1, <2>2
    <3>2. u[i].original = i
      BY <1>3, <1>4, <2>2, <3>1
    <3> QED
      BY <2>2, <3>2
  <2>3. CASE i \notin 1..x.start
    <3>1. i \in (e + 1)..Len(u)
      BY <1>0, <1>1, <1>4, <1>5, <2>1, <2>3
    <3>2. u[i] = t[shift(i)]
      BY <1>4, <3>1
    <3>3. shift(i) \in 1..Len(t) /\ shift(i) > x.end
      BY <1>0, <1>1, <1>2, <1>3, <1>4, <3>1
    <3>4. shift(i) \in Left(t)
      BY <1>2, <2>1, <3>2, <3>3 DEF Left
    <3>5. x.end \in Left(t) /\ t[x.end].original = x.end
      BY <1>0, <1>1, <1>2, <1>3 DEF Left
    <3>6. t[shift(i)].original > x.end
      <4> DEFINE j == shift(i)
      <4>1. x.end < j /\ j \in Left(t)
        BY <1>0, <1>1, <3>3, <3>4
      <4> HIDE DEF j
      <4>2. t[x.end].original < t[j].original
        BY <3>5, <4>1 DEF IsMasked
      <4> QED
        BY <1>0, <1>1, <1>6, <3>5, <4>1, <4>2 DEF j
    <3> QED
      BY <3>1, <3>2, <3>3, <3>4, <3>6
  <2> QED
    BY <2>2, <2>3
<1> DEFINE masked == (x.start + 1)..x.end
<1>8. Masked(found \cup {x}) = Masked(found) \cup masked
  BY DEF Masked
<1>9. \A n \in Masked(found) : n \in Nat /\ n > x.end
  <2> SUFFICES ASSUME NEW f \in found, NEW n \in (f.start + 1)..f.end
               PROVE  n \in Nat /\ n > x.end
    BY DEF Masked
  <2>1. f.start \in Nat /\ f.end \in Nat /\ x.end <= f.start
    BY FindingFields
  <2> QED
    BY <1>0, <1>1, <2>1
<1>10. {u[i].original : i \in Left(u)} = (1..Length) \ Masked(found \cup {x})
  <2>1. ASSUME NEW i \in Left(u)
        PROVE  u[i].original \in (1..Length) \ (Masked(found) \cup masked)
    <3>1. CASE i \in 1..x.start /\ u[i].original = i
      BY <1>0, <1>1, <1>9, <3>1
    <3>2. CASE /\ shift(i) \in Left(t) /\ u[i] = t[shift(i)]
               /\ u[i].original > x.end
      <4>1. t[shift(i)].original \in (1..Length) \ Masked(found)
        BY <3>2 DEF IsMasked
      <4> QED
        BY <1>0, <1>1, <3>2, <4>1
    <3> QED
      BY <1>7, <3>1, <3>2
  <2>2. ASSUME NEW n \in (1..Length) \ (Masked(found) \cup masked)
        PROVE  \E i \in Left(u) : u[i].original = n
    <3>1. CASE n <= x.start
      <4>1. n \in 1..x.start /\ n \in 1..Len(u) /\ n \in 1..x.end /\ n # 0
        BY <1>0, <1>1, <1>2, <1>3, <1>4, <3>1
      <4>2. u[n].original = n
        BY <1>3, <1>4, <4>1
      <4> QED
        BY <1>5, <4>1, <4>2 DEF Left
    <3>2. CASE n > x.end
      <4>1. PICK j \in Left(t) : t[j].original = n
        BY DEF IsMasked
      <4>2. j \in 1..Len(t)
        BY <1>2 DEF Left
      <4>3. j > x.end
        BY <1>0, <1>1, <1>2, <1>3, <3>2, <4>1, <4>2
      <4> DEFINE i == j - x.end + e
      <4>4. i \in (e + 1)..Len(u) /\ shift(i) = j /\ i \in 1..Len(u)
        <5>1. /\ Len(u) = e + (Len(t) - x.end) /\ Len(t) \in Nat
              /\ e \in Nat /\ x.end \in Nat /\ j \in Nat /\ j <= Len(t)
          BY <1>0, <1>1, <1>2, <1>4, <4>2
        <5>2. i \in Int /\ i >= e + 1 /\ i <= Len(u) /\ Len(u) \in Int
          BY <4>3, <5>1
        <5>3. i - e + x.end = j
          BY <5>1
        <5> QED
          BY <5>1, <5>2, <5>3
      <4>5. u[i].original = n
        <5> HIDE DEF i, shift
        <5>1. \A m \in (e + 1)..Len(u) : u[m] = t[shift(m)]
          BY <1>4
        <5>2. u[i] = t[shift(i)]
          BY <4>4, <5>1, Zenon
        <5>3. shift(i) = j
          BY <4>4
        <5> QED
          BY <4>1, <5>2, <5>3, Zenon
      <4>6. n # 0
        OBVIOUS
      <4> HIDE DEF i
      <4> QED
        BY <1>5, <4>4, <4>5, <4>6 DEF Left
    <3> QED
      BY <1>0, <1>1, <3>1, <3>2
  <2> DEFINE A == {u[i].original : i \in Left(u)}
             B == (1..Length) \ (Masked(found) \cup masked)
  <2>3. A \subseteq B
    BY <2>1, Zenon
  <2>4. B \subseteq A
    BY <2>2, Zenon
  <2>5. A = B
    BY <2>3, <2>4, Zenon
  <2> QED
    BY <1>8, <2>5, Zenon
<1>11. ASSUME NEW i \in Left(u), NEW j \in Left(u), i < j
       PROVE  u[i].original < u[j].original
  <2>1. i \in Nat /\ j \in Nat
    BY <1>5 DEF Left
  <2>2. CASE i \in 1..x.start /\ u[i].original = i
    <3>1. CASE j \in 1..x.start /\ u[j].original = j
      BY <1>11, <2>2, <3>1
    <3>2. CASE u[j].original > x.end
      <4> DEFINE n == u[j].original
      <4>1. n \in Nat
        <5>1. j \in 1..Len(u) /\ \A c \in Char : c.original \in Nat
          BY <1>5 DEF Left, Char
        <5>2. u[j] \in Char
          BY <1>4, <5>1
        <5> QED
          BY <5>1, <5>2
      <4> HIDE DEF n
      <4>2. i < n
        BY <1>1, <2>1, <2>2, <3>2, <4>1 DEF n
      <4> QED
        BY <2>2, <4>2 DEF n
    <3> QED
      BY <1>7, <3>1, <3>2
  <2>3. CASE /\ i \in (e + 1)..Len(u) /\ shift(i) \in Left(t)
             /\ u[i] = t[shift(i)]
    <3>1. /\ j \in (e + 1)..Len(u) /\ shift(j) \in Left(t)
          /\ u[j] = t[shift(j)]
      BY <1>0, <1>1, <1>7, <1>11, <2>1, <2>3
    <3>2. shift(i) < shift(j)
      BY <1>0, <1>1, <1>11, <2>1
    <3> HIDE DEF shift
    <3> QED
      BY <2>3, <3>1, <3>2 DEF IsMasked
  <2> QED
    BY <1>7, <2>2, <2>3
<1>12. Untouched(u, found \cup {x})
  <2> SUFFICES ASSUME NEW b \in 0..Length, b <= x.start
               PROVE  b <= Len(u) /\ \A i \in 1..b : u[i].original = i
    BY DEF Untouched
  <2>1. b <= Len(u)
    BY <1>0, <1>1, <1>2, <1>3, <1>4
  <2>2. \A i \in 1..b : i \in 1..x.start /\ i \in 1..x.end
    BY <1>1
  <2> QED
    BY <1>3, <1>4, <2>1, <2>2
<1> QED
  BY <1>4, <1>10, <1>11, <1>12 DEF IsMasked, u

\* The passage itself, before any finding is replaced.
LEMMA NothingMasked ==
    ASSUME Texts!PassagesAssumption
    PROVE  IsMasked(Texts!Passage, {})
<1>1. Length \in Nat
  BY DEF Texts!PassagesAssumption
<1>2. /\ Texts!Passage \in Seq(Char) /\ Len(Texts!Passage) = Length /\ DOMAIN Texts!Passage = 1..Length
      /\ \A i \in 1..Length : Texts!Passage[i].original = i
  <2>1. \A i \in 1..Length : Texts!Character(i) \in Char /\ Texts!Character(i).original = i
    BY DEF Texts!Character, Char
  <2>2. Texts!Passage \in [1..Length -> Char]
    BY <2>1 DEF Texts!Passage
  <2>3. \A i \in 1..Length : Texts!Passage[i].original = i
    BY <2>1 DEF Texts!Passage
  <2> QED
    BY <1>1, <2>2, <2>3
<1> HIDE DEF Texts!Passage
<1>3. Left(Texts!Passage) = 1..Length
  BY <1>1, <1>2 DEF Left
<1>4. {Texts!Passage[i].original : i \in 1..Length} = 1..Length
  BY <1>2
<1>5. Masked({}) = {}
  BY DEF Masked
<1>6. Untouched(Texts!Passage, {})
  BY <1>1, <1>2 DEF Untouched
<1>7. \A i, j \in Left(Texts!Passage) : i < j => Texts!Passage[i].original < Texts!Passage[j].original
  BY <1>2, <1>3
<1> QED
  BY <1>2, <1>3, <1>4, <1>5, <1>6, <1>7 DEF IsMasked

\* From right to left every finding is masked, and nothing else.
LEMMA RedactMasks ==
    ASSUME Texts!PassagesAssumption, NEW found, Disjoint(found)
    PROVE  IsMasked(Texts!Redact(Texts!Passage, found), found)
<1>1. PICK h : Blots(h, Texts!Passage, found) /\ Texts!Redact(Texts!Passage, found) = h[found]
  <2>1. \E h : Blots(h, Texts!Passage, found)
    BY BlotsExist
  <2> DEFINE h == CHOOSE h : Blots(h, Texts!Passage, found)
  <2>2. Blots(h, Texts!Passage, found)
    BY <2>1
  <2>3. Texts!Redact(Texts!Passage, found) = h[found]
    BY DEF Texts!Redact, Texts!MapThenFoldSet, Blots
  <2> QED
    BY <2>2, <2>3
<1> DEFINE D(k) == Later(found, k)
           S == {k \in Nat : IsMasked(h[D(k)], D(k))}
<1>2. h[{}] = Texts!Passage
  BY <1>1 DEF Blots
<1>3. 0 \in S
  BY <1>2, NothingMasked, LaterEnds
<1>4. ASSUME NEW k \in Nat, k \in S PROVE k + 1 \in S
  <2>1. CASE D(k + 1) = D(k)
    BY <1>4, <2>1
  <2>2. CASE \E x \in found :
               /\ x \notin D(k)
               /\ D(k + 1) = D(k) \cup {x}
               /\ \A f \in D(k) : x.start < f.start
    <3>1. PICK x \in found : /\ x \notin D(k)
                             /\ D(k + 1) = D(k) \cup {x}
                             /\ \A f \in D(k) : x.start < f.start
      BY <2>2
    <3>2. D(k) \subseteq found /\ D(k + 1) \subseteq found /\ found \subseteq Texts!Finding
      BY DEF Disjoint, Later
    <3>3. \A f \in D(k) : x.end <= f.start
      <4> SUFFICES ASSUME NEW f \in D(k) PROVE x.end <= f.start
        OBVIOUS
      <4>1. f \in found /\ f # x /\ x.start < f.start
        BY <3>1, <3>2
      <4>2. /\ f.start \in Nat /\ f.end \in Nat /\ f.start < f.end
            /\ x.start \in Nat /\ x.end \in Nat
        BY <3>2, <4>1, FindingFields
      <4>3. Texts!Apart(f, x)
        BY <4>1 DEF Disjoint
      <4> QED
        BY <4>1, <4>2, <4>3 DEF Texts!Apart
    <3>4. IsMasked(h[D(k)], D(k))
      BY <1>4
    <3> HIDE DEF D
    <3>5. Texts!Leftmost(D(k + 1)) = x
      <4>1. \A f \in D(k + 1) : f = x \/ x.start < f.start
        BY <3>1
      <4> QED
        BY <3>1, <3>2, <4>1, LeftmostIs
    <3>6. h[D(k + 1)] = Texts!Mask(h[D(k)], x)
      <4>1. D(k + 1) # {} /\ D(k + 1) \ {x} = D(k)
        BY <3>1
      <4> QED
        BY <1>1, <3>2, <3>5, <4>1 DEF Blots
    <3>7. IsMasked(Texts!Mask(h[D(k)], x), D(k) \cup {x})
      BY <3>2, <3>3, <3>4, MaskKeeps
    <3> QED
      BY <3>1, <3>6, <3>7
  <2> QED
    BY <2>1, <2>2, OneMore
<1>5. Length \in S
  <2> HIDE DEF S
  <2>1. Nat \subseteq S
    BY <1>3, <1>4, Induction
  <2> QED
    BY <2>1 DEF Texts!PassagesAssumption
<1> QED
  BY <1>1, <1>5, LaterEnds

\* What the scan found in one passage does not overlap.
FindingsApart == Disjoint(findings)

\* scan_text reports no finding that overlaps another.
LEMMA FindingsStayApart ==
    ASSUME Texts!PassagesAssumption
    PROVE  Texts!Spec => []FindingsApart
<1>1. Texts!Init => FindingsApart
  BY DEF FindingsApart, Texts!Init, Disjoint
<1>2. FindingsApart /\ [Texts!Next]_(Texts!vars) => FindingsApart'
  <2> SUFFICES ASSUME FindingsApart, [Texts!Next]_(Texts!vars) PROVE FindingsApart'
    OBVIOUS
  <2>1. CASE \E f \in Texts!Finding : Texts!Find(f)
    <3>1. PICK f \in Texts!Finding : Texts!Find(f)
      BY <2>1
    <3> QED
      BY <3>1 DEF FindingsApart, Texts!Find, Disjoint, Texts!Apart
  <2>2. CASE UNCHANGED findings
    BY <2>2 DEF FindingsApart
  <2> QED
    BY <2>1, <2>2 DEF Texts!Next, Texts!Read, Texts!vars
<1> QED
  BY <1>1, <1>2, PTL DEF Texts!Spec

\* What is stored of a passage is the passage without what the scan found.
LEMMA FindingsStayMasked ==
    ASSUME Texts!PassagesAssumption
    PROVE  Texts!Spec => []Texts!FindingsAreMasked
<1>1. FindingsApart => Texts!FindingsAreMasked
  <2> SUFFICES ASSUME FindingsApart PROVE Texts!FindingsAreMasked
    OBVIOUS
  <2> DEFINE r == Texts!Redact(Texts!Passage, findings)
  <2>1. IsMasked(r, findings)
    BY RedactMasks DEF FindingsApart
  <2> HIDE DEF r
  <2> QED
    BY <2>1 DEF Texts!FindingsAreMasked, IsMasked, Masked, Left, r
<1> QED
  BY <1>1, FindingsStayApart, PTL
=============================================================================
