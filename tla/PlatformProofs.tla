---------------------------- MODULE PlatformProofs ----------------------------
(***************************************************************************)
(* Proofs about Platform: what the proofs of its parts show of each part's *)
(* own specification holds of the platform, whose behaviours are           *)
(* behaviours of every part; the evaluation gate, the stored recipe and    *)
(* what runs make of replies, which are proved here.                       *)
(*                                                                         *)
(* The compiler is a fold of folds.  While it folds, one account is kept   *)
(* of a run through what is compiled so far (Good): which steps it passes, *)
(* that it goes on from each to the next only, that no node reads what     *)
(* runs after it.  A pending end is where the run stands (Goes) or on a    *)
(* branch it did not take (Passes).                                        *)
(***************************************************************************)
EXTENDS PlatformRuntimeProofs, PlatformDataProofs, Sequences

-----------------------------------------------------------------------------
(* The evaluation gate. *)

\* No suite's judge passes an answer that broke the guardrail of its case, but a
\* vehicle case of an unknown type passes unjudged.
LEMMA JudgesKeepGuardrail ==
    ASSUME NEW s \in DOMAIN Gate!Threshold, NEW c \in Gate!Cases[s],
           NEW a \in Gate!Answers(s, c.type), Gate!Evaluate(s, c, a)
    PROVE  Gate!KeepsGuardrail(s, c, a) \/ Gate!JudgedByNobody(s, c)
<1> USE DEF Gate!KeepsGuardrail, Gate!Evaluate, Gate!JudgedByNobody
<1>1. CASE s = "analytics"
  <2>1. Gate!EvaluateAnalyticsCase(c, a)
    BY <1>1
  <2>2. a \in Gate!AnalyticsAnswers
    BY <1>1 DEF Gate!Answers
  <2>3. "refused" \in a \/ "clarified" \in a => {"rows", "table"} \cap a = {}
    BY <2>2 DEF Gate!AnalyticsAnswers
  <2>4. c.demands \cap {"refused", "clarified", "refused_or_clarified"} # {}
           => "refused" \in a \/ "clarified" \in a
    BY <2>1 DEF Gate!EvaluateAnalyticsCase
  <2>5. c.type # "unknown"
    BY <1>1 DEF Gate!Cases, Gate!AnalyticsCases, Gate!Case
  <2> QED
    BY <1>1, <2>3, <2>4, <2>5
<1>2. CASE s = "dev_agent"
  <2>1. Gate!EvaluateDevAgentCase(c, a)
    BY <1>2
  <2>2. a \in Gate!DevAgentAnswers
    BY <1>2 DEF Gate!Answers
  <2>3. "blocked" \in a => "pending" \notin a
    BY <2>2 DEF Gate!DevAgentAnswers
  <2>4. c.type # "unknown"
    BY <1>2 DEF Gate!Cases, Gate!DevAgentCases, Gate!Case
  <2> QED
    BY <1>2, <2>1, <2>3, <2>4 DEF Gate!EvaluateDevAgentCase
<1>3. CASE s = "invoice"
  <2>1. c.type # "unknown"
    BY <1>3 DEF Gate!Cases, Gate!InvoiceCases, Gate!Case
  <2> QED
    BY <1>3, <2>1 DEF Gate!EvaluateInvoiceCase
<1>4. CASE s = "hr"
  BY <1>4 DEF Gate!EvaluateHrCase
<1>5. CASE s = "vehicle"
  BY <1>5 DEF Gate!EvaluateVehicleCase
<1>6. CASE s = "dealer"
  BY <1>6 DEF Gate!EvaluateDealerCase, Gate!EvaluateEmailBody
<1>7. CASE s = "legal"
  BY <1>7 DEF Gate!EvaluateLegalCase
<1>8. CASE s = "insights"
  BY <1>8 DEF Gate!RunInsightsCase
<1>9. CASE s = "listing"
  <2>1. c.type # "unknown"
    BY <1>9 DEF Gate!Cases, Gate!ListingCases, Gate!Case
  <2> QED
    BY <1>9, <2>1 DEF Gate!EvaluateListingCase
<1>10. CASE s = "support"
  <2>1. c.type # "unknown"
    BY <1>10 DEF Gate!Cases, Gate!SupportCases, Gate!Case
  <2> QED
    BY <1>10, <2>1
<1> QED
  BY <1>1, <1>2, <1>3, <1>4, <1>5, <1>6, <1>7, <1>8, <1>9, <1>10 DEF Gate!Threshold

\* As many answers kept the guardrail as passed, and who went through passed.
GateInv ==
    /\ Gate!TypeOK
    /\ passed <= kept
    /\ exit = "0" => done = size /\ Gate!PassRateReached

LEMMA GateInit == ASSUME Gate!EvaluationAssumption PROVE Gate!Init => GateInv
BY DEF Gate!EvaluationAssumption, Gate!Init, GateInv, Gate!TypeOK

LEMMA GateStep ==
    ASSUME Gate!EvaluationAssumption, GateInv, [Gate!Next]_(Gate!vars)
    PROVE  GateInv'
<1> USE DEF GateInv, Gate!TypeOK
<1>0. size \in Nat
  BY DEF Gate!EvaluationAssumption
<1>1. CASE Gate!RunCase
  <2>1. PICK c \in Gate!Cases[suite] : \E a \in Gate!Answers(suite, c.type) :
          /\ passed' = IF Gate!Evaluate(suite, c, a) THEN passed + 1 ELSE passed
          /\ kept' = IF Gate!KeepsGuardrail(suite, c, a) \/ Gate!JudgedByNobody(suite, c)
                     THEN kept + 1 ELSE kept
    BY <1>1 DEF Gate!RunCase
  <2>2. PICK a \in Gate!Answers(suite, c.type) :
          /\ passed' = IF Gate!Evaluate(suite, c, a) THEN passed + 1 ELSE passed
          /\ kept' = IF Gate!KeepsGuardrail(suite, c, a) \/ Gate!JudgedByNobody(suite, c)
                     THEN kept + 1 ELSE kept
    BY <2>1
  <2>3. suite \in DOMAIN Gate!Threshold
    BY DEF Gate!EvaluationAssumption
  <2>4. Gate!Evaluate(suite, c, a) =>
           Gate!KeepsGuardrail(suite, c, a) \/ Gate!JudgedByNobody(suite, c)
    BY <2>3, JudgesKeepGuardrail
  <2>5. /\ passed' \in {passed, passed + 1} /\ kept' \in {kept, kept + 1}
        /\ passed' = passed + 1 => kept' = kept + 1
    BY <2>2, <2>4, <1>0
  <2>6. /\ done < size /\ exit = "running" /\ done' = done + 1
        /\ UNCHANGED <<suite, size, exit>>
    BY <1>1 DEF Gate!RunCase
  <2> QED
    BY <1>0, <2>5, <2>6
<1>2. CASE Gate!Raise
  BY <1>0, <1>2 DEF Gate!Raise
<1>3. CASE Gate!Finish
  BY <1>0, <1>3 DEF Gate!Finish, Gate!PassRateReached
<1>4. CASE UNCHANGED Gate!vars
  BY <1>0, <1>4 DEF Gate!vars, Gate!PassRateReached
<1> QED
  BY <1>1, <1>2, <1>3, <1>4 DEF Gate!Next

\* Every threshold is above nothing, so an empty dataset does not go through.
LEMMA ThresholdsBind ==
    ASSUME NEW s \in DOMAIN Gate!Threshold
    PROVE  Gate!Threshold[s] \in Nat \ {0}
BY DEF Gate!Threshold

LEMMA GateIsSound ==
    ASSUME Gate!EvaluationAssumption, GateInv PROVE Gate!GateIsEarned
<1> SUFFICES ASSUME exit = "0"
             PROVE  /\ done = size /\ size > 0
                    /\ 100 * kept >= Gate!Threshold[suite] * size
  BY DEF Gate!GateIsEarned
<1> DEFINE bar == Gate!Threshold[suite]
<1>1. /\ size \in Nat /\ passed \in Nat /\ kept \in Nat /\ passed <= kept
      /\ done = size /\ suite \in DOMAIN Gate!Threshold
  BY DEF GateInv, Gate!TypeOK, Gate!EvaluationAssumption
<1>2. bar \in Nat \ {0}
  BY <1>1, ThresholdsBind
<1>3. Gate!PassRateReached
  BY DEF GateInv
<1>4. size > 0
  BY <1>1, <1>2, <1>3 DEF Gate!PassRateReached
<1>5. 100 * passed >= bar * size
  BY <1>3, <1>4, <1>1 DEF Gate!PassRateReached
<1>6. bar * size \in Nat
  BY <1>1, <1>2
<1> HIDE DEF bar
<1>7. 100 * kept >= bar * size
  BY <1>1, <1>5, <1>6
<1> QED
  BY <1>1, <1>4, <1>7 DEF bar

LEMMA GateInvariant ==
    ASSUME Gate!EvaluationAssumption
    PROVE  Gate!Spec => [](Gate!TypeOK /\ Gate!GateIsEarned)
<1>1. GateInv /\ [Gate!Next]_(Gate!vars) => GateInv'
  BY GateStep
<1>2. GateInv => Gate!TypeOK /\ Gate!GateIsEarned
  BY GateIsSound DEF GateInv
<1> QED
  BY GateInit, <1>1, <1>2, PTL DEF Gate!Spec

-----------------------------------------------------------------------------
(* The stored recipe. *)

LEMMA RecipeTypes ==
    ASSUME Compiler!CompilerAssumption PROVE Compiler!Spec => []Compiler!TypeOK
<1>1. Compiler!Init => Compiler!TypeOK
  BY DEF Compiler!CompilerAssumption, Compiler!Init, Compiler!TypeOK
<1>2. ASSUME Compiler!TypeOK, [Compiler!Next]_(Compiler!vars)
      PROVE  Compiler!TypeOK'
  <2>1. ASSUME NEW step \in Step, Compiler!Extend(step) PROVE Compiler!TypeOK'
    <3>1. draft' = Append(draft, step) /\ UNCHANGED trigger
      BY <2>1 DEF Compiler!Extend
    <3>2. Len(Append(draft, step)) \in 1..MaxSteps
      BY <2>1 DEF Compiler!Extend, Compiler!Accepted
    <3>3. Append(draft, step) \in Seq(Step)
      BY <1>2 DEF Compiler!TypeOK
    <3> QED
      BY <1>2, <3>1, <3>2, <3>3 DEF Compiler!CompilerAssumption, Compiler!TypeOK
  <2>2. CASE UNCHANGED Compiler!vars
    BY <1>2, <2>2 DEF Compiler!vars, Compiler!TypeOK
  <2> QED
    BY <1>2, <2>1, <2>2 DEF Compiler!Next
<1>3. Compiler!TypeOK /\ [Compiler!Next]_(Compiler!vars) => Compiler!TypeOK'
  BY <1>2
<1> QED
  BY <1>1, <1>3, PTL DEF Compiler!Spec

-----------------------------------------------------------------------------
(* The compiler.  "told" are the steps a run from the trigger "start" passes,
   when the conditions with their id in "holding" hold: the account is kept
   while the compiler folds over the steps and, within a step, over its
   branches. *)

\* Where a run starts.
Starts == {Compiler!Webhook, Compiler!Schedule}

\* The ids of the steps with these nodes.
IdsOf(names) == {n.id : n \in names}

\* The nodes a run passes: its trigger, then those of the steps told.
Place(start, told, i) == IF i = 0 THEN start ELSE Compiler!NodeName(told[i])

\* Nothing a node's texts refer to is lost, and connections come from nodes
\* there are.
WellFormed(w) ==
    /\ w = [nodes |-> w.nodes, names |-> w.names, edges |-> w.edges,
            pending |-> w.pending]
    /\ \E X : w.nodes \in Seq(X)
    /\ \A k \in DOMAIN w.nodes :
          w.nodes[k].lost = {} /\ w.nodes[k].reads \subseteq w.names
    /\ w.names \cap Starts = {}
    /\ \A e \in w.edges : e.from \in w.names \cup Starts
    /\ \A p \in w.pending : p.from \in w.names \cup Starts

\* From the trigger the steps told run one after the other, and then nothing.
Follows(w, start, holding, told) ==
    /\ told \in Seq(Step)
    /\ \A i \in 1..Len(told) : Place(start, told, i) \in w.names
    /\ \A i \in 0..Len(told) :
          i < Len(told) => Place(start, told, i) # Place(start, told, Len(told))
    /\ \A i \in 0..Len(told) :
          Compiler!After(w.edges, Place(start, told, i), holding)
             = IF i < Len(told) THEN {Place(start, told, i + 1)} ELSE {}

\* The node of a step told reads no step told from it on.
ReadsBack(w, told) ==
    \A k \in 1..Len(told) : \E j \in DOMAIN w.nodes :
        /\ w.nodes[j].name = Compiler!NodeName(told[k])
        /\ \A i \in k..Len(told) : Compiler!NodeName(told[i]) \notin w.nodes[j].reads

Good(w, start, holding, told) ==
    WellFormed(w) /\ Follows(w, start, holding, told) /\ ReadsBack(w, told)

\* A pending end that the run comes to.
Live(p, start, holding, told) ==
    /\ p.output = Compiler!OutputOf(p.from, holding)
    /\ \E i \in 0..Len(told) : p.from = Place(start, told, i)

\* The run ends at a pending end, the only one it comes to.
Goes(w, start, holding, told) ==
    /\ \E p \in w.pending : Live(p, start, holding, told)
    /\ \A p \in w.pending : Live(p, start, holding, told) =>
          p.from = Place(start, told, Len(told))

\* The run comes to none.
Passes(w, start, holding, told) ==
    \A p \in w.pending : ~ Live(p, start, holding, told)

-----------------------------------------------------------------------------
\* A node has its step's id and type, and is no trigger.
LEMMA NamesAreNoStarts ==
    ASSUME NEW s
    PROVE  /\ Compiler!NodeName(s) \notin Starts
           /\ Compiler!NodeName(s).id = s.id /\ Compiler!NodeName(s).type = s.type
<1>1. DOMAIN Compiler!NodeName(s) = {"type", "id"}
  BY DEF Compiler!NodeName
<1>2. DOMAIN Compiler!Webhook = {"trigger"} /\ DOMAIN Compiler!Schedule = {"trigger"}
  BY DEF Compiler!Webhook, Compiler!Schedule
<1>3. "type" \in DOMAIN Compiler!NodeName(s) /\ "type" \notin DOMAIN Compiler!Webhook
      /\ "type" \notin DOMAIN Compiler!Schedule
  BY <1>1, <1>2
<1>4. Compiler!NodeName(s) # Compiler!Webhook /\ Compiler!NodeName(s) # Compiler!Schedule
  BY <1>3
<1>5. Compiler!NodeName(s).id = s.id /\ Compiler!NodeName(s).type = s.type
  BY DEF Compiler!NodeName
<1> QED
  BY <1>4, <1>5 DEF Starts

\* What a node emitted for a step brings.
LEMMA ConnectFields ==
    ASSUME NEW w, NEW s
    PROVE  LET n == Compiler!NodeName(s)
               v == Compiler!Connect(w, s)
           IN  /\ v.nodes = Append(w.nodes, Compiler!Node(s, w.names \cup {n}))
               /\ v.names = w.names \cup {n}
               /\ v.edges = w.edges \cup
                     {[from |-> p.from, output |-> p.output, to |-> n] : p \in w.pending}
               /\ v.pending = {[from |-> n, output |-> 0]}
               /\ v = [nodes |-> v.nodes, names |-> v.names, edges |-> v.edges,
                       pending |-> v.pending]
BY DEF Compiler!Connect

\* A node loses none of its references and reads only nodes before it.
LEMMA NodeFields ==
    ASSUME NEW s, NEW names, s.refs \subseteq IdsOf(names), s.id \notin s.refs
    PROVE  LET n == Compiler!NodeName(s)
               node == Compiler!Node(s, names \cup {n})
           IN  /\ node.name = n /\ node.lost = {}
               /\ node.reads \subseteq names
<1> DEFINE n == Compiler!NodeName(s)
           known == names \cup {n}
           node == Compiler!Node(s, known)
<1>1. /\ node.name = n
      /\ node.reads = {m \in known : m.id \in s.refs}
      /\ node.lost = s.refs \ {m.id : m \in known}
  BY DEF Compiler!Node
<1>2. n.id = s.id
  BY NamesAreNoStarts
<1>3. s.refs \subseteq {m.id : m \in known}
  BY DEF IdsOf
<1> QED
  BY <1>1, <1>2, <1>3

\* Emitting a node for a step that fits keeps the work well formed.
LEMMA ConnectIsWellFormed ==
    ASSUME NEW w, WellFormed(w), NEW s, s.refs \subseteq IdsOf(w.names), s.id \notin s.refs
    PROVE  LET v == Compiler!Connect(w, s)
               n == Compiler!NodeName(s)
               m == Len(w.nodes)
           IN  /\ WellFormed(v)
               /\ DOMAIN v.nodes = DOMAIN w.nodes \cup {m + 1}
               /\ m \in Nat /\ DOMAIN w.nodes = 1..m
               /\ \A k \in DOMAIN w.nodes : v.nodes[k] = w.nodes[k]
               /\ v.nodes[m + 1].name = n /\ v.nodes[m + 1].reads \subseteq w.names
<1> DEFINE v == Compiler!Connect(w, s)
           n == Compiler!NodeName(s)
           m == Len(w.nodes)
           node == Compiler!Node(s, w.names \cup {n})
<1>1. PICK X : w.nodes \in Seq(X)
  BY DEF WellFormed
<1> DEFINE Y == X \cup {node}
<1>2. w.nodes \in Seq(Y)
  BY <1>1
<1>3. v.nodes = Append(w.nodes, node)
  BY ConnectFields
<1>4. node.name = n /\ node.lost = {} /\ node.reads \subseteq w.names
  BY NodeFields
<1> HIDE DEF node
<1>5. /\ v.nodes \in Seq(Y) /\ m \in Nat /\ DOMAIN w.nodes = 1..m
      /\ Len(v.nodes) = m + 1
      /\ \A k \in 1..m : v.nodes[k] = w.nodes[k]
      /\ v.nodes[m + 1] = node
  <2>1. node \in Y
    OBVIOUS
  <2> HIDE DEF Y, v
  <2> QED
    BY <1>2, <1>3, <2>1, AppendProperties
<1>6. DOMAIN v.nodes = (1..m) \cup {m + 1}
  <2>1. DOMAIN v.nodes = 1..(m + 1)
    BY <1>5
  <2> HIDE DEF v, m
  <2> QED
    BY <1>5, <2>1
<1>7. /\ v.names = w.names \cup {n}
      /\ v.edges = w.edges \cup
            {[from |-> p.from, output |-> p.output, to |-> n] : p \in w.pending}
      /\ v.pending = {[from |-> n, output |-> 0]}
      /\ v = [nodes |-> v.nodes, names |-> v.names, edges |-> v.edges,
              pending |-> v.pending]
  BY ConnectFields
<1> HIDE DEF v, m, n
<1>8. v.names \cap Starts = {}
  BY <1>7, NamesAreNoStarts DEF WellFormed, n
<1>9. \A k \in DOMAIN v.nodes : v.nodes[k].lost = {} /\ v.nodes[k].reads \subseteq v.names
  BY <1>4, <1>5, <1>6, <1>7 DEF WellFormed
<1>10. \A e \in v.edges : e.from \in v.names \cup Starts
  BY <1>7 DEF WellFormed
<1>11. \A p \in v.pending : p.from \in v.names \cup Starts
  BY <1>7
<1>12. WellFormed(v)
  BY <1>5, <1>7, <1>8, <1>9, <1>10, <1>11 DEF WellFormed
<1> QED
  BY <1>4, <1>5, <1>6, <1>12 DEF v, m, n

\* An end of this node is pending that is left by.
Ends(w, x, holding) ==
    \E p \in w.pending : p.from = x /\ p.output = Compiler!OutputOf(x, holding)

\* Where n8n goes on to from a node, once another is connected.
LEMMA AfterConnect ==
    ASSUME NEW w, NEW s, NEW x, NEW holding
    PROVE  /\ Ends(w, x, holding) =>
                 Compiler!After(Compiler!Connect(w, s).edges, x, holding)
                    = Compiler!After(w.edges, x, holding) \cup {Compiler!NodeName(s)}
           /\ ~ Ends(w, x, holding) =>
                 Compiler!After(Compiler!Connect(w, s).edges, x, holding)
                    = Compiler!After(w.edges, x, holding)
<1> DEFINE n == Compiler!NodeName(s)
           out == Compiler!OutputOf(x, holding)
           conn(p) == [from |-> p.from, output |-> p.output, to |-> n]
           new == {conn(p) : p \in w.pending}
           E(edges) == {f \in edges : f.from = x /\ f.output = out}
<1>1. Compiler!Connect(w, s).edges = w.edges \cup new
  BY ConnectFields
<1>2. \A edges : Compiler!After(edges, x, holding) = {e.to : e \in E(edges)}
  BY DEF Compiler!After
<1>3. \A p : conn(p).from = p.from /\ conn(p).output = p.output /\ conn(p).to = n
  OBVIOUS
<1> HIDE DEF conn, n, out
<1>4. E(w.edges \cup new) = E(w.edges) \cup E(new)
  OBVIOUS
<1>5. \A e \in E(new) : e.to = n
  BY <1>3
<1>6. Ends(w, x, holding) <=> E(new) # {}
  <2>1. ASSUME Ends(w, x, holding) PROVE E(new) # {}
    <3>1. PICK p \in w.pending : p.from = x /\ p.output = out
      BY <2>1 DEF Ends, out
    <3>2. conn(p) \in E(new)
      BY <1>3, <3>1
    <3> QED
      BY <3>2
  <2>2. ASSUME NEW e \in E(new) PROVE Ends(w, x, holding)
    <3>1. PICK p \in w.pending : e = conn(p)
      OBVIOUS
    <3>2. p.from = x /\ p.output = out
      BY <1>3, <3>1
    <3> QED
      BY <3>2 DEF Ends, out
  <2> HIDE DEF E, new
  <2> QED
    BY <2>1, <2>2
<1> HIDE DEF E, new
<1>7. E(new) # {} => {e.to : e \in E(w.edges) \cup E(new)} =
                        {e.to : e \in E(w.edges)} \cup {n}
  BY <1>5
<1>8. E(new) = {} => {e.to : e \in E(w.edges) \cup E(new)} = {e.to : e \in E(w.edges)}
  OBVIOUS
<1> QED
  BY <1>1, <1>2, <1>4, <1>6, <1>7, <1>8 DEF n

\* A node there is not yet is left by no connection and on no run.
LEMMA NewIsNowhere ==
    ASSUME NEW w, WellFormed(w), NEW n, n \notin w.names, n \notin Starts,
           NEW start \in Starts, NEW holding, NEW told, Follows(w, start, holding, told)
    PROVE  /\ Compiler!After(w.edges, n, holding) = {}
           /\ \A p \in w.pending : p.from # n
           /\ \A i \in 0..Len(told) : Place(start, told, i) # n
           /\ \A i \in 0..Len(told) : Place(start, told, i) \in w.names \cup Starts
<1>1. \A e \in w.edges : e.from # n
  BY DEF WellFormed
<1>2. Compiler!After(w.edges, n, holding) = {}
  BY <1>1 DEF Compiler!After
<1>3. \A p \in w.pending : p.from # n
  BY DEF WellFormed
<1>4. ASSUME NEW i \in 0..Len(told)
      PROVE  Place(start, told, i) \in w.names \cup Starts
  <2>1. CASE i = 0
    BY <2>1 DEF Place
  <2>2. CASE i # 0
    <3>1. i \in 1..Len(told)
      BY <2>2
    <3> QED
      BY <3>1 DEF Follows
  <2> QED
    BY <2>1, <2>2
<1> QED
  BY <1>2, <1>3, <1>4

\* A step the run does not come to leaves it as it was.
LEMMA ConnectPassed ==
    ASSUME NEW w, NEW s, NEW start \in Starts, NEW holding, NEW told,
           Good(w, start, holding, told), Passes(w, start, holding, told),
           Compiler!NodeName(s) \notin w.names, s.refs \subseteq IdsOf(w.names),
           s.id \notin s.refs
    PROVE  /\ Good(Compiler!Connect(w, s), start, holding, told)
           /\ Passes(Compiler!Connect(w, s), start, holding, told)
<1> DEFINE v == Compiler!Connect(w, s)
           n == Compiler!NodeName(s)
           m == Len(w.nodes)
<1>0. WellFormed(w) /\ Follows(w, start, holding, told) /\ ReadsBack(w, told)
  BY DEF Good
<1>1. /\ WellFormed(v) /\ DOMAIN v.nodes = DOMAIN w.nodes \cup {m + 1}
      /\ \A k \in DOMAIN w.nodes : v.nodes[k] = w.nodes[k]
  BY <1>0, ConnectIsWellFormed
<1>2. v.names = w.names \cup {n} /\ v.pending = {[from |-> n, output |-> 0]}
  BY ConnectFields
<1>3. n \notin Starts
  BY NamesAreNoStarts
<1>4. /\ \A i \in 0..Len(told) : Place(start, told, i) # n
      /\ \A i \in 0..Len(told) : Place(start, told, i) \in w.names \cup Starts
  BY <1>0, <1>3, NewIsNowhere
<1>5. ASSUME NEW i \in 0..Len(told)
      PROVE  Compiler!After(v.edges, Place(start, told, i), holding)
                = Compiler!After(w.edges, Place(start, told, i), holding)
  <2> DEFINE x == Place(start, told, i)
  <2>1. ~ Ends(w, x, holding)
    BY DEF Passes, Live, Ends
  <2> HIDE DEF x
  <2> QED
    BY <2>1, AfterConnect DEF x
<1> HIDE DEF v, n, m
<1>6. Follows(v, start, holding, told)
  BY <1>0, <1>2, <1>5 DEF Follows
<1>7. ReadsBack(v, told)
  BY <1>0, <1>1 DEF ReadsBack
<1>8. Passes(v, start, holding, told)
  BY <1>2, <1>4 DEF Passes, Live
<1> QED
  BY <1>1, <1>6, <1>7, <1>8 DEF Good, v

\* A step the run comes to is told next, and the run ends at it.
LEMMA ConnectTold ==
    ASSUME NEW w, NEW s \in Step, NEW start \in Starts, NEW holding, NEW told,
           Good(w, start, holding, told), Goes(w, start, holding, told),
           Compiler!NodeName(s) \notin w.names, s.refs \subseteq IdsOf(w.names),
           s.id \notin s.refs
    PROVE  Good(Compiler!Connect(w, s), start, holding, Append(told, s))
<1> DEFINE v == Compiler!Connect(w, s)
           n == Compiler!NodeName(s)
           m == Len(w.nodes)
           t == Append(told, s)
           l == Len(told)
<1>0. WellFormed(w) /\ Follows(w, start, holding, told) /\ ReadsBack(w, told)
  BY DEF Good
<1>1. /\ WellFormed(v) /\ DOMAIN v.nodes = DOMAIN w.nodes \cup {m + 1}
      /\ \A k \in DOMAIN w.nodes : v.nodes[k] = w.nodes[k] /\ w.nodes[k].reads \subseteq w.names
      /\ v.nodes[m + 1].name = n /\ v.nodes[m + 1].reads \subseteq w.names
  BY <1>0, ConnectIsWellFormed DEF WellFormed
<1>2. v.names = w.names \cup {n}
  BY ConnectFields
<1>3. n \notin Starts
  BY NamesAreNoStarts
<1>4. /\ \A i \in 0..l : Place(start, told, i) # n
      /\ Compiler!After(w.edges, n, holding) = {}
      /\ \A p \in w.pending : p.from # n
  BY <1>0, <1>3, NewIsNowhere
<1>5. /\ t \in Seq(Step) /\ Len(t) = l + 1 /\ l \in Nat
      /\ \A i \in 1..l : t[i] = told[i]
      /\ t[l + 1] = s
  BY <1>0, AppendProperties DEF Follows
<1>6. /\ \A i \in 0..l : Place(start, t, i) = Place(start, told, i)
      /\ Place(start, t, l + 1) = n
  BY <1>5 DEF Place
<1>7. ASSUME NEW x
      PROVE  /\ Ends(w, x, holding) =>
                   Compiler!After(v.edges, x, holding) = Compiler!After(w.edges, x, holding) \cup {n}
             /\ ~ Ends(w, x, holding) =>
                   Compiler!After(v.edges, x, holding) = Compiler!After(w.edges, x, holding)
  BY AfterConnect
<1>8. ASSUME NEW i \in 0..l
      PROVE  Compiler!After(v.edges, Place(start, t, i), holding) = {Place(start, t, i + 1)}
  <2> DEFINE x == Place(start, told, i)
  <2>1. CASE i = l
    <3>1. Ends(w, x, holding)
      BY <2>1 DEF Goes, Live, Ends
    <3>2. Compiler!After(w.edges, x, holding) = {}
      BY <1>0, <2>1 DEF Follows
    <3> QED
      BY <1>6, <1>7, <2>1, <3>1, <3>2
  <2>2. CASE i < l
    <3>1. x # Place(start, told, l)
      BY <1>0, <2>2 DEF Follows
    <3>2. ~ Ends(w, x, holding)
      BY <3>1 DEF Goes, Live, Ends
    <3>3. Compiler!After(w.edges, x, holding) = {Place(start, told, i + 1)}
      BY <1>0, <2>2 DEF Follows
    <3>4. i + 1 \in 0..l
      BY <1>5, <2>2
    <3> QED
      BY <1>6, <1>7, <3>2, <3>3, <3>4
  <2> QED
    BY <1>5, <2>1, <2>2
<1>9. Compiler!After(v.edges, n, holding) = {}
  <2>1. ~ Ends(w, n, holding)
    BY <1>4 DEF Ends
  <2> QED
    BY <1>4, <1>7, <2>1
<1> HIDE DEF v, n, m, t, l
<1>10. Follows(v, start, holding, t)
  <2>1. \A i \in 1..Len(t) : Place(start, t, i) \in v.names
    <3>1. \A i \in 1..l : i \in 0..l /\ Place(start, told, i) \in w.names
      BY <1>0, <1>5 DEF Follows, l
    <3>2. \A i \in 1..Len(t) : i \in 1..l \/ i = l + 1
      BY <1>5
    <3> QED
      BY <1>2, <1>6, <3>1, <3>2
  <2>2. \A i \in 0..Len(t) :
           i < Len(t) => Place(start, t, i) # Place(start, t, Len(t))
    <3>1. \A i \in 0..Len(t) : i < Len(t) => i \in 0..l
      BY <1>5
    <3> QED
      BY <1>4, <1>5, <1>6, <3>1
  <2>3. \A i \in 0..Len(t) :
           Compiler!After(v.edges, Place(start, t, i), holding)
              = IF i < Len(t) THEN {Place(start, t, i + 1)} ELSE {}
    <3>1. \A i \in 0..Len(t) : \/ i \in 0..l /\ i < Len(t)
                               \/ i = l + 1 /\ ~ (i < Len(t))
      <4>1. Len(t) = l + 1 /\ l \in Nat
        BY <1>5
      <4> SUFFICES ASSUME NEW i \in 0..(l + 1)
                   PROVE  \/ i \in 0..l /\ i < l + 1
                          \/ i = l + 1 /\ ~ (i < l + 1)
        BY <4>1
      <4> QED
        BY <4>1
    <3> QED
      BY <1>6, <1>8, <1>9, <3>1
  <2> QED
    BY <1>5, <2>1, <2>2, <2>3 DEF Follows
<1>11. ReadsBack(v, t)
  <2> SUFFICES ASSUME NEW k \in 1..Len(t)
               PROVE  \E j \in DOMAIN v.nodes :
                         /\ v.nodes[j].name = Compiler!NodeName(t[k])
                         /\ \A i \in k..Len(t) : Compiler!NodeName(t[i]) \notin v.nodes[j].reads
    BY DEF ReadsBack
  <2>1. CASE k = l + 1
    <3>1. \A i \in k..Len(t) : i = l + 1
      BY <1>5, <2>1
    <3> QED
      BY <1>1, <1>5, <2>1, <3>1 DEF n
  <2>2. CASE k \in 1..l
    <3>1. PICK j \in DOMAIN w.nodes :
             /\ w.nodes[j].name = Compiler!NodeName(told[k])
             /\ \A i \in k..l : Compiler!NodeName(told[i]) \notin w.nodes[j].reads
      BY <1>0, <2>2 DEF ReadsBack, l
    <3>2. \A i \in k..Len(t) : (i \in k..l /\ i \in 1..l) \/ i = l + 1
      BY <1>5, <2>2
    <3>3. n \notin w.nodes[j].reads
      BY <1>1, <3>1 DEF n
    <3> QED
      BY <1>1, <1>5, <2>2, <3>1, <3>2, <3>3 DEF n
  <2> QED
    BY <1>5, <2>1, <2>2
<1> QED
  BY <1>1, <1>10, <1>11 DEF Good, v, t

-----------------------------------------------------------------------------
(* A branch. *)

\* The ids of a branch are new, and what it refers to is there.
BranchFits(names, branch) ==
    /\ branch \in Seq(Step)
    /\ \A i \in 1..Len(branch) :
          /\ ~ Compiler!IsCondition(branch[i])
          /\ branch[i].id \notin IdsOf(names)
          /\ branch[i].refs \subseteq IdsOf(names)
    /\ \A i, j \in 1..Len(branch) : branch[i].id = branch[j].id => i = j

\* The nodes of the first actions of a branch.
NamesTo(branch, k) == {Compiler!NodeName(branch[i]) : i \in 1..k}

\* The next action of a branch is as new as the first.
LEMMA NextBranchFits ==
    ASSUME NEW names, NEW branch, BranchFits(names, branch),
           NEW k \in Nat, k + 1 <= Len(branch)
    PROVE  LET known == names \cup NamesTo(branch, k)
               s == branch[k + 1]
           IN  /\ s \in Step /\ ~ Compiler!IsCondition(s)
               /\ Compiler!NodeName(s) \notin known
               /\ s.refs \subseteq IdsOf(known)
               /\ s.id \notin s.refs
               /\ NamesTo(branch, k + 1) = NamesTo(branch, k) \cup {Compiler!NodeName(s)}
<1> DEFINE s == branch[k + 1]
           known == names \cup NamesTo(branch, k)
<1>0. k + 1 \in 1..Len(branch) /\ Len(branch) \in Nat
  BY DEF BranchFits
<1>1. /\ s \in Step /\ ~ Compiler!IsCondition(s) /\ s.id \notin IdsOf(names)
      /\ s.refs \subseteq IdsOf(names)
  BY <1>0 DEF BranchFits
<1>2. \A x : Compiler!NodeName(x).id = x.id
  BY NamesAreNoStarts
<1>3. Compiler!NodeName(s) \notin names
  BY <1>1, <1>2 DEF IdsOf
<1>4. Compiler!NodeName(s) \notin NamesTo(branch, k)
  <2> SUFFICES ASSUME NEW i \in 1..k, Compiler!NodeName(s) = Compiler!NodeName(branch[i])
               PROVE  FALSE
    BY DEF NamesTo
  <2>1. branch[i].id = branch[k + 1].id
    BY <1>2
  <2>2. i \in 1..Len(branch) /\ i # k + 1
    BY <1>0
  <2> QED
    BY <1>0, <2>1, <2>2 DEF BranchFits
<1>5. IdsOf(names) \subseteq IdsOf(known)
  BY DEF IdsOf
<1>6. 1..(k + 1) = (1..k) \cup {k + 1}
  OBVIOUS
<1>7. NamesTo(branch, k + 1) = NamesTo(branch, k) \cup {Compiler!NodeName(s)}
  BY <1>6 DEF NamesTo
<1> HIDE DEF s, known
<1> QED
  BY <1>1, <1>3, <1>4, <1>5, <1>7 DEF s, known

\* A branch connected, action after action.
Connected(w, branch) == Compiler!FoldLeft(Compiler!Connect, w, branch)

\* What FoldLeft chooses when it connects a branch.
Connects(h, base, seq, D) ==
    h = [s \in SUBSET D |->
           IF s = {} THEN base ELSE Compiler!Connect(h[s \ {Texts!Max(s)}], seq[Texts!Max(s)])]

\* The first elements of a sequence, after another.
LEMMA FirstNone ==
    ASSUME NEW X, NEW t \in Seq(X), NEW b \in Seq(X)
    PROVE  t \o SubSeq(b, 1, 0) = t
<1>1. SubSeq(b, 1, 0) = <<>>
  BY SubSeqProperties
<1> QED
  BY <1>1, ConcatEmptySeq

\* All elements are the whole sequence.
LEMMA FirstAll ==
    ASSUME NEW X, NEW t \in Seq(X), NEW b \in Seq(X)
    PROVE  t \o SubSeq(b, 1, Len(b)) = t \o b
<1>1. SubSeq(b, 1, Len(b)) = b
  BY SubSeqFull
<1> QED
  BY <1>1

\* One element more is appended.
LEMMA FirstNext ==
    ASSUME NEW X, NEW t \in Seq(X), NEW b \in Seq(X), NEW k \in Nat, k + 1 <= Len(b)
    PROVE  t \o SubSeq(b, 1, k + 1) = Append(t \o SubSeq(b, 1, k), b[k + 1])
<1>1. SubSeq(b, 1, k + 1) = Append(SubSeq(b, 1, k), b[k + 1])
  BY SubSeqRecursiveSecond
<1>2. SubSeq(b, 1, k) \in Seq(X) /\ b[k + 1] \in X
  BY SubSeqProperties
<1>3. \A a, c \in Seq(X), e \in X : a \o Append(c, e) = Append(a \o c, e)
  OBVIOUS
<1> QED
  BY <1>1, <1>2, <1>3

\* A run that ends at a node ends at the pending end it is left by.
LEMMA EndGoes ==
    ASSUME NEW w, NEW s, NEW start, NEW holding, NEW told \in Seq(Step), s \in Step,
           w.pending = {[from   |-> Compiler!NodeName(s),
                          output |-> Compiler!OutputOf(Compiler!NodeName(s), holding)]}
    PROVE  Goes(w, start, holding, Append(told, s))
<1> DEFINE t == Append(told, s)
           p == [from   |-> Compiler!NodeName(s),
                 output |-> Compiler!OutputOf(Compiler!NodeName(s), holding)]
<1>1. Len(t) \in Nat /\ Len(t) # 0 /\ t[Len(t)] = s
  BY AppendProperties
<1>2. Place(start, t, Len(t)) = Compiler!NodeName(s)
  BY <1>1 DEF Place
<1>3. p.from = Compiler!NodeName(s) /\ p.output = Compiler!OutputOf(Compiler!NodeName(s), holding)
  OBVIOUS
<1> HIDE DEF t, p
<1>4. w.pending = {p}
  BY DEF p
<1>5. Live(p, start, holding, t)
  <2>1. Len(t) \in 0..Len(t)
    BY <1>1
  <2> QED
    BY <1>2, <1>3, <2>1 DEF Live
<1> QED
  BY <1>2, <1>3, <1>4, <1>5 DEF Goes, t

\* The work after each action of a branch.
ConnectsInTurn(work, w, branch) ==
    /\ work[0] = w
    /\ \A k \in Nat : k + 1 <= Len(branch) =>
          work[k + 1] = Compiler!Connect(work[k], branch[k + 1])
    /\ Connected(w, branch) = work[Len(branch)]

\* The fold over a branch goes through its actions in turn.
LEMMA BranchRounds ==
    ASSUME NEW w, NEW branch, BranchFits(w.names, branch)
    PROVE  \E work : ConnectsInTurn(work, w, branch)
<1> DEFINE n == Len(branch)
           g == CHOOSE h : Connects(h, w, branch, DOMAIN branch)
<1>0. n \in Nat /\ DOMAIN branch = 1..n
  BY DEF BranchFits
<1>1. Connected(w, branch) = g[1..n]
  <2>1. Connected(w, branch) = g[DOMAIN branch]
    BY DEF Connected, Compiler!FoldLeft, Compiler!MapThenFoldSet,
           Compiler!Max, Texts!Max, Connects
  <2> QED
    BY <1>0, <2>1
<1> HIDE DEF n
<1>2. \A h : Connects(h, w, branch, 1..n) <=> Computes(h, "connect", w, branch, 1..n)
  BY DEF Connects, Computes, Does
<1>3. Connects(g, w, branch, 1..n)
  <2>1. \E h : Connects(h, w, branch, 1..n)
    BY <1>0, <1>2, ComputesExists
  <2> QED
    BY <1>0, <2>1
<1> HIDE DEF g
<1>4a. PICK work : InTurn(work, "connect", w, branch, n, g[1..n])
  <2>1. Computes(g, "connect", w, branch, 1..n)
    BY <1>2, <1>3
  <2> QED
    BY <1>0, <2>1, LoopRounds
<1>4. /\ work[0] = w /\ g[1..n] = work[n]
      /\ \A k \in 1..n : work[k] = Does("connect", work[k - 1], branch[k])
  BY <1>4a DEF InTurn
<1>5. ASSUME NEW k \in Nat, k + 1 <= n
      PROVE  work[k + 1] = Compiler!Connect(work[k], branch[k + 1])
  <2>1. k + 1 \in 1..n /\ (k + 1) - 1 = k
    BY <1>0, <1>5
  <2>2. work[k + 1] = Does("connect", work[(k + 1) - 1], branch[k + 1])
    BY <1>4, <2>1
  <2> QED
    BY <2>1, <2>2 DEF Does
<1>6. ConnectsInTurn(work, w, branch)
  BY <1>1, <1>4, <1>5 DEF n, ConnectsInTurn
<1> QED
  BY <1>6

\* A branch the run does not come to.
LEMMA BranchPassed ==
    ASSUME NEW w, NEW branch, BranchFits(w.names, branch),
           NEW start \in Starts, NEW holding, NEW told,
           Good(w, start, holding, told), Passes(w, start, holding, told)
    PROVE  LET v == Connected(w, branch)
           IN  /\ Good(v, start, holding, told) /\ Passes(v, start, holding, told)
               /\ v.names = w.names \cup NamesTo(branch, Len(branch))
<1>0. Len(branch) \in Nat
  BY DEF BranchFits
<1>1a. PICK work : ConnectsInTurn(work, w, branch)
  BY BranchRounds
<1>1. /\ work[0] = w
      /\ \A k \in Nat : k + 1 <= Len(branch) =>
            work[k + 1] = Compiler!Connect(work[k], branch[k + 1])
      /\ Connected(w, branch) = work[Len(branch)]
  BY <1>1a DEF ConnectsInTurn
<1> DEFINE Holds(k) == /\ Good(work[k], start, holding, told)
                       /\ Passes(work[k], start, holding, told)
                       /\ work[k].names = w.names \cup NamesTo(branch, k)
           S == {k \in Nat : k <= Len(branch) => Holds(k)}
<1>2. 0 \in S
  <2>1. NamesTo(branch, 0) = {}
    BY DEF NamesTo
  <2> QED
    BY <1>1, <2>1
<1>3. ASSUME NEW k \in Nat, k \in S PROVE k + 1 \in S
  <2> SUFFICES ASSUME k + 1 <= Len(branch) PROVE Holds(k + 1)
    OBVIOUS
  <2> DEFINE s == branch[k + 1]
             u == work[k]
  <2>1. /\ Good(u, start, holding, told) /\ Passes(u, start, holding, told)
        /\ u.names = w.names \cup NamesTo(branch, k)
    BY <1>0, <1>3
  <2>2. work[k + 1] = Compiler!Connect(u, s)
    BY <1>1
  <2>3. /\ Compiler!NodeName(s) \notin u.names
        /\ s.refs \subseteq IdsOf(u.names)
        /\ s.id \notin s.refs
        /\ NamesTo(branch, k + 1) = NamesTo(branch, k) \cup {Compiler!NodeName(s)}
    BY <2>1, NextBranchFits
  <2> HIDE DEF s, u
  <2>4. /\ Good(Compiler!Connect(u, s), start, holding, told)
        /\ Passes(Compiler!Connect(u, s), start, holding, told)
    BY <2>1, <2>3, ConnectPassed
  <2>5. Compiler!Connect(u, s).names = u.names \cup {Compiler!NodeName(s)}
    BY ConnectFields
  <2> QED
    BY <2>1, <2>2, <2>3, <2>4, <2>5
<1> HIDE DEF S
<1>4. Nat \subseteq S
  BY <1>2, <1>3, Induction
<1>5. Holds(Len(branch))
  BY <1>0, <1>4 DEF S
<1> QED
  BY <1>1, <1>5

\* A branch the run comes to is told, action after action.
LEMMA BranchTold ==
    ASSUME NEW w, NEW branch, BranchFits(w.names, branch),
           NEW start \in Starts, NEW holding, NEW told,
           Good(w, start, holding, told), Goes(w, start, holding, told)
    PROVE  LET v == Connected(w, branch)
           IN  /\ Good(v, start, holding, told \o branch)
               /\ Goes(v, start, holding, told \o branch)
               /\ v.names = w.names \cup NamesTo(branch, Len(branch))
<1> DEFINE T(k) == told \o SubSeq(branch, 1, k)
<1>0. Len(branch) \in Nat /\ branch \in Seq(Step) /\ told \in Seq(Step)
  BY DEF BranchFits, Good, Follows
<1>1a. PICK work : ConnectsInTurn(work, w, branch)
  BY BranchRounds
<1>1. /\ work[0] = w
      /\ \A k \in Nat : k + 1 <= Len(branch) =>
            work[k + 1] = Compiler!Connect(work[k], branch[k + 1])
      /\ Connected(w, branch) = work[Len(branch)]
  BY <1>1a DEF ConnectsInTurn
<1> DEFINE Holds(k) == /\ Good(work[k], start, holding, T(k))
                       /\ Goes(work[k], start, holding, T(k))
                       /\ work[k].names = w.names \cup NamesTo(branch, k)
           S == {k \in Nat : k <= Len(branch) => Holds(k)}
<1>2. 0 \in S
  <2>1. NamesTo(branch, 0) = {}
    BY DEF NamesTo
  <2>2. T(0) = told
    BY <1>0, FirstNone
  <2> HIDE DEF T
  <2> QED
    BY <1>1, <2>1, <2>2
<1>3. ASSUME NEW k \in Nat, k \in S PROVE k + 1 \in S
  <2> SUFFICES ASSUME k + 1 <= Len(branch) PROVE Holds(k + 1)
    OBVIOUS
  <2> DEFINE s == branch[k + 1]
             u == work[k]
             v == Compiler!Connect(u, s)
             t == T(k)
  <2> HIDE DEF T
  <2>1. /\ Good(u, start, holding, t) /\ Goes(u, start, holding, t)
        /\ u.names = w.names \cup NamesTo(branch, k)
    BY <1>0, <1>3
  <2>2. work[k + 1] = v
    BY <1>1
  <2>3. /\ s \in Step /\ ~ Compiler!IsCondition(s)
        /\ Compiler!NodeName(s) \notin u.names
        /\ s.refs \subseteq IdsOf(u.names)
        /\ s.id \notin s.refs
        /\ NamesTo(branch, k + 1) = NamesTo(branch, k) \cup {Compiler!NodeName(s)}
    BY <2>1, NextBranchFits
  <2>4. T(k + 1) = Append(t, s)
    BY <1>0, FirstNext DEF T
  <2> HIDE DEF s, u, t
  <2>5. Good(v, start, holding, Append(t, s))
    BY <2>1, <2>3, ConnectTold
  <2>6. /\ v.names = u.names \cup {Compiler!NodeName(s)}
        /\ v.pending = {[from |-> Compiler!NodeName(s), output |-> 0]}
    BY ConnectFields
  <2> HIDE DEF v
  <2>7. Goes(v, start, holding, Append(t, s))
    <3>1. t \in Seq(Step)
      BY <2>1 DEF Good, Follows
    <3>2. Compiler!OutputOf(Compiler!NodeName(s), holding) = 0
      BY <2>3, NamesAreNoStarts DEF Compiler!OutputOf, Compiler!IsCondition
    <3> QED
      BY <2>3, <2>6, <3>1, <3>2, EndGoes
  <2> QED
    BY <2>1, <2>2, <2>3, <2>4, <2>5, <2>6, <2>7
<1> HIDE DEF S
<1>4. Nat \subseteq S
  BY <1>2, <1>3, Induction
<1>5. Holds(Len(branch))
  BY <1>0, <1>4 DEF S
<1>6. T(Len(branch)) = told \o branch
  BY <1>0, FirstAll
<1> HIDE DEF T
<1> QED
  BY <1>1, <1>5, <1>6

\* The work with one end pending.
Opening(w, n, o) == [w EXCEPT !.pending = {[from |-> n, output |-> o]}]

\* One end pending, at a node there is.
LEMMA Opened ==
    ASSUME NEW w, NEW start, NEW holding, NEW told, Good(w, start, holding, told),
           NEW n \in w.names \cup Starts, NEW o
    PROVE  LET u == Opening(w, n, o)
           IN  /\ Good(u, start, holding, told)
               /\ u.names = w.names
               /\ u.pending = {[from |-> n, output |-> o]}
<1> DEFINE u == Opening(w, n, o)
<1>1. WellFormed(w) /\ Follows(w, start, holding, told) /\ ReadsBack(w, told)
  BY DEF Good
<1>2. w = [nodes |-> w.nodes, names |-> w.names, edges |-> w.edges, pending |-> w.pending]
  BY <1>1 DEF WellFormed
<1>3. /\ u = [nodes |-> u.nodes, names |-> u.names, edges |-> u.edges, pending |-> u.pending]
      /\ u.nodes = w.nodes /\ u.names = w.names /\ u.edges = w.edges
      /\ u.pending = {[from |-> n, output |-> o]}
  BY <1>2 DEF Opening
<1> HIDE DEF u
<1>4. WellFormed(u)
  <2>1. \A p \in u.pending : p.from \in u.names \cup Starts
    BY <1>3
  <2> QED
    BY <1>1, <1>3, <2>1 DEF WellFormed
<1>5. Follows(u, start, holding, told) /\ ReadsBack(u, told)
  BY <1>1, <1>3 DEF Follows, ReadsBack
<1> QED
  BY <1>3, <1>4, <1>5 DEF Good, u

\* An end that is left the other way is not come to.
LEMMA OtherWay ==
    ASSUME NEW w, NEW n, NEW o, NEW start, NEW holding, NEW told,
           w.pending = {[from |-> n, output |-> o]}, o # Compiler!OutputOf(n, holding)
    PROVE  Passes(w, start, holding, told)
BY DEF Passes, Live

\* An end that was there before a branch and that the run did not come to is
\* not come to along the branch.
LEMMA StaysPassed ==
    ASSUME NEW names, NEW branch, BranchFits(names, branch), NEW p,
           p.from \in names \cup Starts,
           NEW start, NEW holding, NEW told \in Seq(Step),
           ~ Live(p, start, holding, told)
    PROVE  ~ Live(p, start, holding, told \o branch)
<1> DEFINE t == told \o branch
<1>1. /\ branch \in Seq(Step) /\ Len(branch) \in Nat /\ Len(told) \in Nat
      /\ Len(t) = Len(told) + Len(branch)
      /\ \A i \in 1..Len(t) : t[i] = IF i <= Len(told) THEN told[i]
                                      ELSE branch[i - Len(told)]
  BY ConcatProperties DEF BranchFits
<1> SUFFICES ASSUME NEW i \in 0..Len(t), p.from = Place(start, t, i),
                    p.output = Compiler!OutputOf(p.from, holding)
             PROVE  FALSE
  BY DEF Live
<1>2. CASE i <= Len(told)
  <2>1. i \in 0..Len(told)
    BY <1>1, <1>2
  <2>2. Place(start, t, i) = Place(start, told, i)
    BY <1>1, <2>1 DEF Place
  <2> QED
    BY <2>1, <2>2 DEF Live
<1>3. CASE ~ (i <= Len(told))
  <2> DEFINE j == i - Len(told)
  <2>1. i \in 1..Len(t) /\ i # 0 /\ j \in 1..Len(branch)
    BY <1>1, <1>3
  <2>2. Place(start, t, i) = Compiler!NodeName(branch[j])
    BY <1>1, <1>3, <2>1 DEF Place
  <2>3. Compiler!NodeName(branch[j]) \notin Starts /\ Compiler!NodeName(branch[j]).id = branch[j].id
    BY NamesAreNoStarts
  <2>4. branch[j].id \notin IdsOf(names)
    BY <2>1 DEF BranchFits
  <2> QED
    BY <2>2, <2>3, <2>4 DEF IdsOf
<1> QED
  BY <1>2, <1>3

-----------------------------------------------------------------------------
(* A step. *)

\* What the schema has seen to when a step is emitted.
Admits(names, s) ==
    /\ s \in Step
    /\ Compiler!IsCondition(s) =>
          s.then_steps \in Seq(Compiler!Actions) /\ s.else_steps \in Seq(Compiler!Actions)
    /\ Compiler!Distinct(s)
    /\ Compiler!Ids(s) \cap IdsOf(names) = {}
    /\ Compiler!References(s) \subseteq IdsOf(names)

\* The ids of the steps of a condition, one by one.
LEMMA ConditionIds ==
    ASSUME NEW s, Compiler!IsCondition(s), s.then_steps \in Seq(Compiler!Actions),
           s.else_steps \in Seq(Compiler!Actions), Compiler!Distinct(s)
    PROVE  LET a == s.then_steps
               b == s.else_steps
           IN  /\ \A i \in 1..Len(a) : a[i].id # s.id
               /\ \A i \in 1..Len(b) : b[i].id # s.id
               /\ \A i, j \in 1..Len(a) : a[i].id = a[j].id => i = j
               /\ \A i, j \in 1..Len(b) : b[i].id = b[j].id => i = j
               /\ \A i \in 1..Len(a), j \in 1..Len(b) : a[i].id # b[j].id
               /\ Compiler!Ids(s) = {s.id} \cup {a[i].id : i \in 1..Len(a)}
                                  \cup {b[i].id : i \in 1..Len(b)}
               /\ \A i \in 1..Len(a) : a[i].refs \subseteq Compiler!References(s)
               /\ \A i \in 1..Len(b) : b[i].refs \subseteq Compiler!References(s)
<1> DEFINE a == s.then_steps
           b == s.else_steps
           c == Compiler!BranchSteps(s)
           la == Len(a)
           lb == Len(b)
<1>1. /\ la \in Nat /\ lb \in Nat /\ DOMAIN c = 1..(la + lb)
      /\ \A i \in 1..la : i \in 1..(la + lb) /\ c[i] = a[i]
      /\ \A i \in 1..lb : la + i \in 1..(la + lb) /\ c[la + i] = b[i]
      /\ c \in Seq(Compiler!Actions) /\ Len(c) = la + lb
  <2>1. c = a \o b
    BY DEF Compiler!BranchSteps
  <2> HIDE DEF a, b, c
  <2>2. a \in Seq(Compiler!Actions) /\ b \in Seq(Compiler!Actions)
    BY DEF a, b
  <2> QED
    BY <2>1, <2>2
<1> DEFINE ids == [k \in DOMAIN c |-> c[k].id]
           all == <<s.id>> \o ids
<1>2. Compiler!IsInjective(all)
  BY DEF Compiler!Distinct
<1> HIDE DEF c, a, b, la, lb
<1>3. /\ DOMAIN all = 1..(la + lb + 1) /\ all[1] = s.id
      /\ \A k \in 1..(la + lb) : all[k + 1] = c[k].id
  <2> DEFINE X == {s.id} \cup {c[k].id : k \in DOMAIN c}
  <2>1. <<s.id>> \in Seq(X) /\ Len(<<s.id>>) = 1 /\ <<s.id>>[1] = s.id
    OBVIOUS
  <2>2. ids \in Seq(X) /\ Len(ids) = la + lb /\ \A k \in 1..(la + lb) : ids[k] = c[k].id
    BY <1>1
  <2> HIDE DEF X, ids
  <2>3. /\ Len(all) = 1 + Len(ids) /\ all \in Seq(X)
        /\ \A i \in 1..Len(all) : all[i] = IF i <= 1 THEN <<s.id>>[i] ELSE ids[i - 1]
    BY <2>1, <2>2, ConcatProperties
  <2> HIDE DEF all
  <2>4. \A k \in 1..(la + lb) : k + 1 \in 1..(1 + (la + lb)) /\ ~ (k + 1 <= 1) /\ (k + 1) - 1 = k
    BY <1>1
  <2>5. DOMAIN all = 1..(la + lb + 1) /\ 1 \in 1..Len(all)
    BY <1>1, <2>2, <2>3
  <2> QED
    BY <2>1, <2>2, <2>3, <2>4, <2>5
<1>4. \A i, j \in 1..(la + lb + 1) : all[i] = all[j] => i = j
  BY <1>2, <1>3 DEF Compiler!IsInjective
<1> HIDE DEF all
<1>5. \A k \in 1..(la + lb) : c[k].id # s.id
  <2>1. \A k \in 1..(la + lb) : k + 1 \in 1..(la + lb + 1) /\ k + 1 # 1 /\ 1 \in 1..(la + lb + 1)
    BY <1>1
  <2> QED
    BY <1>3, <1>4, <2>1
<1>6. \A k, l \in 1..(la + lb) : c[k].id = c[l].id => k = l
  <2>1. \A k \in 1..(la + lb) : k + 1 \in 1..(la + lb + 1)
    BY <1>1
  <2> QED
    BY <1>1, <1>3, <1>4, <2>1
<1>7. \A i \in 1..la : a[i].id # s.id
  BY <1>1, <1>5
<1>8. \A i \in 1..lb : b[i].id # s.id
  BY <1>1, <1>5
<1>9. \A i, j \in 1..la : a[i].id = a[j].id => i = j
  BY <1>1, <1>6
<1>10. \A i, j \in 1..lb : b[i].id = b[j].id => i = j
  <2> SUFFICES ASSUME NEW i \in 1..lb, NEW j \in 1..lb, b[i].id = b[j].id PROVE i = j
    OBVIOUS
  <2>1. la + i = la + j
    BY <1>1, <1>6
  <2> QED
    BY <1>1, <2>1
<1>11. \A i \in 1..la, j \in 1..lb : a[i].id # b[j].id
  <2> SUFFICES ASSUME NEW i \in 1..la, NEW j \in 1..lb, a[i].id = b[j].id PROVE FALSE
    OBVIOUS
  <2>1. i = la + j
    BY <1>1, <1>6
  <2> QED
    BY <1>1, <2>1
<1>12. \A k \in 1..(la + lb) : \/ k \in 1..la
                               \/ \E j \in 1..lb : k = la + j
  <2> SUFFICES ASSUME NEW k \in 1..(la + lb), k \notin 1..la
               PROVE  \E j \in 1..lb : k = la + j
    OBVIOUS
  <2>1. k - la \in 1..lb /\ k = la + (k - la)
    BY <1>1
  <2> QED
    BY <2>1
<1>13. {c[k].id : k \in DOMAIN c} =
          {a[i].id : i \in 1..la} \cup {b[i].id : i \in 1..lb}
  <2>1. ASSUME NEW k \in 1..(la + lb)
        PROVE  \/ \E i \in 1..la : c[k].id = a[i].id
               \/ \E i \in 1..lb : c[k].id = b[i].id
    <3>1. CASE k \in 1..la
      BY <1>1, <3>1
    <3>2. CASE \E j \in 1..lb : k = la + j
      BY <1>1, <3>2
    <3> QED
      BY <1>12, <3>1, <3>2
  <2>2. /\ \A i \in 1..la : \E k \in DOMAIN c : c[k].id = a[i].id
        /\ \A i \in 1..lb : \E k \in DOMAIN c : c[k].id = b[i].id
    BY <1>1
  <2>3. DOMAIN c = 1..(la + lb)
    BY <1>1
  <2> DEFINE all_ids == {c[k].id : k \in DOMAIN c}
             of_a == {a[i].id : i \in 1..la}
             of_b == {b[i].id : i \in 1..lb}
  <2>4. all_ids \subseteq of_a \cup of_b
    BY <2>1, <2>3
  <2>5. of_a \subseteq all_ids /\ of_b \subseteq all_ids
    BY <2>2
  <2> HIDE DEF all_ids, of_a, of_b
  <2>6. all_ids = of_a \cup of_b
    BY <2>4, <2>5
  <2> QED
    BY <2>6 DEF all_ids, of_a, of_b
<1>14. Compiler!Ids(s) = {s.id} \cup {a[i].id : i \in 1..la} \cup {b[i].id : i \in 1..lb}
  BY <1>13 DEF Compiler!Ids, c
<1>15. \A k \in DOMAIN c : c[k].refs \subseteq Compiler!References(s)
  BY DEF Compiler!References, c
<1>16. \A i \in 1..la : a[i].refs \subseteq Compiler!References(s)
  BY <1>1, <1>15
<1>17. \A i \in 1..lb : b[i].refs \subseteq Compiler!References(s)
  BY <1>1, <1>15
<1> QED
  BY <1>7, <1>8, <1>9, <1>10, <1>11, <1>14, <1>16, <1>17 DEF a, b, la, lb
\* Both branches of a condition fit where they are emitted.
LEMMA BranchesFit ==
    ASSUME NEW names, NEW s, Compiler!IsCondition(s), Admits(names, s)
    PROVE  LET a == s.then_steps
               b == s.else_steps
               entered == names \cup {Compiler!NodeName(s)}
               thens == entered \cup NamesTo(a, Len(a))
           IN  /\ BranchFits(entered, a) /\ BranchFits(thens, b)
               /\ IdsOf(thens \cup NamesTo(b, Len(b))) = IdsOf(names) \cup Compiler!Ids(s)
<1> DEFINE a == s.then_steps
           b == s.else_steps
           entered == names \cup {Compiler!NodeName(s)}
           thens == entered \cup NamesTo(a, Len(a))
<1>1. a \in Seq(Compiler!Actions) /\ b \in Seq(Compiler!Actions)
  BY DEF Admits
<1>2. /\ \A i \in 1..Len(a) : a[i].id # s.id
      /\ \A i \in 1..Len(b) : b[i].id # s.id
      /\ \A i, j \in 1..Len(a) : a[i].id = a[j].id => i = j
      /\ \A i, j \in 1..Len(b) : b[i].id = b[j].id => i = j
      /\ \A i \in 1..Len(a), j \in 1..Len(b) : a[i].id # b[j].id
      /\ Compiler!Ids(s) = {s.id} \cup {a[i].id : i \in 1..Len(a)} \cup {b[i].id : i \in 1..Len(b)}
      /\ \A i \in 1..Len(a) : a[i].refs \subseteq Compiler!References(s)
      /\ \A i \in 1..Len(b) : b[i].refs \subseteq Compiler!References(s)
  BY ConditionIds DEF Admits
<1>3. Compiler!Ids(s) \cap IdsOf(names) = {} /\ Compiler!References(s) \subseteq IdsOf(names)
  BY DEF Admits
<1> HIDE DEF a, b
<1>4. /\ a \in Seq(Step) /\ b \in Seq(Step)
      /\ \A i \in 1..Len(a) : ~ Compiler!IsCondition(a[i])
      /\ \A i \in 1..Len(b) : ~ Compiler!IsCondition(b[i])
  <2>1. \A c \in Seq(Compiler!Actions) : c \in Seq(Step) /\ \A i \in 1..Len(c) : c[i] \in Compiler!Actions
    BY DEF Compiler!Actions
  <2>2. \A x \in Compiler!Actions : ~ Compiler!IsCondition(x)
    BY DEF Compiler!Actions
  <2> QED
    BY <1>1, <2>1, <2>2
<1>5. \A x : Compiler!NodeName(x).id = x.id
  BY NamesAreNoStarts
<1>6. \A c, k : IdsOf(NamesTo(c, k)) = {c[i].id : i \in 1..k}
  <2> SUFFICES ASSUME NEW c, NEW k PROVE IdsOf(NamesTo(c, k)) = {c[i].id : i \in 1..k}
    OBVIOUS
  <2>1. IdsOf(NamesTo(c, k)) = {Compiler!NodeName(c[i]).id : i \in 1..k}
    BY DEF IdsOf, NamesTo
  <2> QED
    BY <1>5, <2>1
<1>7. \A x, y : IdsOf(x \cup y) = IdsOf(x) \cup IdsOf(y)
  BY DEF IdsOf
<1>8. IdsOf(entered) = IdsOf(names) \cup {s.id}
  <2>1. IdsOf({Compiler!NodeName(s)}) = {s.id}
    BY <1>5 DEF IdsOf
  <2> QED
    BY <1>7, <2>1
<1> HIDE DEF entered
<1>9. IdsOf(thens) = IdsOf(names) \cup {s.id} \cup {a[i].id : i \in 1..Len(a)}
  <2>1. IdsOf(thens) = IdsOf(entered) \cup IdsOf(NamesTo(a, Len(a)))
    BY <1>7
  <2>2. IdsOf(NamesTo(a, Len(a))) = {a[i].id : i \in 1..Len(a)}
    BY <1>6
  <2> HIDE DEF thens
  <2> QED
    BY <1>8, <2>1, <2>2
<1> HIDE DEF thens
<1>10. \A i \in 1..Len(a) : a[i].id \in Compiler!Ids(s) /\ a[i].id \notin IdsOf(names)
  BY <1>2, <1>3
<1>11. \A i \in 1..Len(b) : b[i].id \in Compiler!Ids(s) /\ b[i].id \notin IdsOf(names)
  BY <1>2, <1>3
<1>12. BranchFits(entered, a)
  <2>1. \A i \in 1..Len(a) : a[i].id \notin IdsOf(entered) /\ a[i].refs \subseteq IdsOf(entered)
    BY <1>2, <1>3, <1>8, <1>10
  <2> QED
    BY <1>2, <1>4, <2>1 DEF BranchFits
<1>13. BranchFits(thens, b)
  <2>1. \A i \in 1..Len(b) : b[i].id \notin IdsOf(thens)
    <3>1. \A i \in 1..Len(b) : b[i].id \notin {a[j].id : j \in 1..Len(a)}
      BY <1>2
    <3> QED
      BY <1>2, <1>9, <1>11, <3>1
  <2>2. \A i \in 1..Len(b) : b[i].refs \subseteq IdsOf(thens)
    BY <1>2, <1>3, <1>9
  <2> QED
    BY <1>2, <1>4, <2>1, <2>2 DEF BranchFits
<1>14. IdsOf(thens \cup NamesTo(b, Len(b))) = IdsOf(names) \cup Compiler!Ids(s)
  <2>1. IdsOf(thens \cup NamesTo(b, Len(b))) = IdsOf(thens) \cup IdsOf(NamesTo(b, Len(b)))
    BY <1>7
  <2>2. IdsOf(NamesTo(b, Len(b))) = {b[i].id : i \in 1..Len(b)}
    BY <1>6
  <2>3. Compiler!Ids(s) = {s.id} \cup {a[i].id : i \in 1..Len(a)} \cup {b[i].id : i \in 1..Len(b)}
    BY <1>2
  <2> QED
    BY <1>9, <2>1, <2>2, <2>3
<1> QED
  BY <1>12, <1>13, <1>14 DEF thens, entered, a, b

\* What a step brings to what the recipe means.
Part(s, holding) ==
    <<s>> \o
    IF ~Compiler!IsCondition(s) THEN <<>>
    ELSE IF s.id \in holding THEN s.then_steps
    ELSE s.else_steps

\* A step's part is told by appending it, then the branch that applies.
LEMMA PartOf ==
    ASSUME NEW names, NEW s, Admits(names, s), NEW holding, NEW told \in Seq(Step)
    PROVE  /\ Part(s, holding) \in Seq(Step)
           /\ ~ Compiler!IsCondition(s) => told \o Part(s, holding) = Append(told, s)
           /\ Compiler!IsCondition(s) =>
                 told \o Part(s, holding) = Append(told, s) \o
                    (IF s.id \in holding THEN s.then_steps ELSE s.else_steps)
<1>1. <<s>> \in Seq(Step) /\ <<>> \in Seq(Step) /\ s \in Step
  BY DEF Admits
<1>2. Append(told, s) = told \o <<s>>
  BY <1>1, AppendIsConcat
<1>3. \A x \in Seq(Step) : told \o (<<s>> \o x) = (told \o <<s>>) \o x
  BY <1>1, ConcatAssociative
<1>4. \A x \in Seq(Step) : <<s>> \o x \in Seq(Step)
  BY <1>1, ConcatProperties
<1>5. CASE ~ Compiler!IsCondition(s)
  <2>1. Part(s, holding) = <<s>> \o <<>>
    BY <1>5 DEF Part
  <2>2. <<s>> \o <<>> = <<s>>
    BY <1>1, ConcatEmptySeq
  <2> QED
    BY <1>1, <1>2, <1>5, <2>1, <2>2
<1>6. CASE Compiler!IsCondition(s)
  <2> DEFINE x == IF s.id \in holding THEN s.then_steps ELSE s.else_steps
  <2>1. x \in Seq(Step)
    <3>1. \A c \in Seq(Compiler!Actions) : c \in Seq(Step)
      BY DEF Compiler!Actions
    <3> QED
      BY <1>6, <3>1 DEF Admits
  <2>2. Part(s, holding) = <<s>> \o x
    BY <1>6 DEF Part
  <2> HIDE DEF x
  <2>3. told \o Part(s, holding) = Append(told, s) \o x /\ Part(s, holding) \in Seq(Step)
    BY <1>2, <1>3, <1>4, <2>1, <2>2
  <2> QED
    BY <1>6, <2>3 DEF x
<1> QED
  BY <1>5, <1>6

\* Where the pending ends of the two branches are joined.
Joined(elses, thens) == [elses EXCEPT !.pending = thens.pending \cup elses.pending]

\* Joining the ends changes nothing else.
LEMMA JoinedIsGood ==
    ASSUME NEW elses, NEW thens, NEW start, NEW holding, NEW told,
           Good(elses, start, holding, told),
           \A p \in thens.pending : p.from \in elses.names \cup Starts
    PROVE  LET v == Joined(elses, thens)
           IN  /\ Good(v, start, holding, told)
               /\ v.names = elses.names
               /\ v.pending = thens.pending \cup elses.pending
<1> DEFINE v == Joined(elses, thens)
<1>1. WellFormed(elses) /\ Follows(elses, start, holding, told) /\ ReadsBack(elses, told)
  BY DEF Good
<1>2. elses = [nodes |-> elses.nodes, names |-> elses.names, edges |-> elses.edges,
               pending |-> elses.pending]
  BY <1>1 DEF WellFormed
<1>3. /\ v = [nodes |-> v.nodes, names |-> v.names, edges |-> v.edges, pending |-> v.pending]
      /\ v.nodes = elses.nodes /\ v.names = elses.names /\ v.edges = elses.edges
      /\ v.pending = thens.pending \cup elses.pending
  BY <1>2 DEF Joined
<1> HIDE DEF v
<1>4. WellFormed(v)
  <2>1. \A p \in v.pending : p.from \in v.names \cup Starts
    BY <1>1, <1>3 DEF WellFormed
  <2> QED
    BY <1>1, <1>3, <2>1 DEF WellFormed
<1>5. Follows(v, start, holding, told) /\ ReadsBack(v, told)
  BY <1>1, <1>3 DEF Follows, ReadsBack
<1> QED
  BY <1>3, <1>4, <1>5 DEF Good, v

\* The step itself, before its branches.
LEMMA Entered ==
    ASSUME NEW w, NEW s, Admits(w.names, s), NEW start \in Starts, NEW holding, NEW told,
           Good(w, start, holding, told), Goes(w, start, holding, told)
    PROVE  LET e == Compiler!Connect(w, s)
           IN  /\ Good(e, start, holding, Append(told, s))
               /\ e.names = w.names \cup {Compiler!NodeName(s)}
               /\ e.pending = {[from |-> Compiler!NodeName(s), output |-> 0]}
               /\ told \in Seq(Step) /\ Append(told, s) \in Seq(Step)
<1>1. /\ s \in Step /\ Compiler!Ids(s) \cap IdsOf(w.names) = {}
      /\ Compiler!References(s) \subseteq IdsOf(w.names)
  BY DEF Admits
<1>2. s.id \in Compiler!Ids(s) /\ s.refs \subseteq Compiler!References(s)
  BY DEF Compiler!Ids, Compiler!References
<1>3. Compiler!NodeName(s) \notin w.names
  <2>1. Compiler!NodeName(s).id = s.id
    BY NamesAreNoStarts
  <2> QED
    BY <1>1, <1>2, <2>1 DEF IdsOf
<1>4. s.refs \subseteq IdsOf(w.names) /\ s.id \notin s.refs
  BY <1>1, <1>2
<1>5. Good(Compiler!Connect(w, s), start, holding, Append(told, s))
  BY <1>1, <1>3, <1>4, ConnectTold
<1>6. /\ Compiler!Connect(w, s).names = w.names \cup {Compiler!NodeName(s)}
      /\ Compiler!Connect(w, s).pending = {[from |-> Compiler!NodeName(s), output |-> 0]}
  BY ConnectFields
<1>7. told \in Seq(Step)
  BY DEF Good, Follows
<1>8. Append(told, s) \in Seq(Step)
  BY <1>1, <1>7, AppendProperties
<1> QED
  BY <1>5, <1>6, <1>7, <1>8

\* A condition and the branch that applies are told next.
LEMMA ConditionTold ==
    ASSUME NEW w, NEW s, Admits(w.names, s), Compiler!IsCondition(s),
           NEW start \in Starts, NEW holding, NEW told,
           Good(w, start, holding, told), Goes(w, start, holding, told)
    PROVE  LET v == Compiler!Emit(w, s)
               t == Append(told, s) \o
                    (IF s.id \in holding THEN s.then_steps ELSE s.else_steps)
           IN  /\ Good(v, start, holding, t) /\ Goes(v, start, holding, t)
               /\ IdsOf(v.names) = IdsOf(w.names) \cup Compiler!Ids(s)
<1> DEFINE n == Compiler!NodeName(s)
           a == s.then_steps
           b == s.else_steps
           t == Append(told, s)
           e == Compiler!Connect(w, s)
           w1 == Opening(e, n, 0)
           thens == Connected(w1, a)
           w2 == Opening(thens, n, 1)
           elses == Connected(w2, b)
           v == Joined(elses, thens)
<1>1. Compiler!Emit(w, s) = v
  BY DEF Compiler!Emit, Compiler!EmitBranch, Joined, Connected, Opening
<1>2. /\ Good(e, start, holding, t)
      /\ e.names = w.names \cup {n}
      /\ t \in Seq(Step) /\ s \in Step
  BY Entered DEF Admits
<1>3. /\ BranchFits(e.names, a)
      /\ BranchFits(e.names \cup NamesTo(a, Len(a)), b)
      /\ IdsOf(e.names \cup NamesTo(a, Len(a)) \cup NamesTo(b, Len(b))) =
            IdsOf(w.names) \cup Compiler!Ids(s)
  BY <1>2, BranchesFit
<1>4. Compiler!OutputOf(n, holding) = IF s.id \in holding THEN 0 ELSE 1
  BY NamesAreNoStarts DEF Compiler!OutputOf, Compiler!IsCondition, Starts
<1> HIDE DEF e, t
<1>5. n \in e.names \cup Starts
  BY <1>2
<1> HIDE DEF n, a, b
<1>6. /\ Good(w1, start, holding, t) /\ w1.names = e.names
      /\ w1.pending = {[from |-> n, output |-> 0]}
  BY <1>2, <1>5, Opened
<1> HIDE DEF w1
<1>7. CASE s.id \in holding
  <2>1. Goes(w1, start, holding, t)
    BY <1>2, <1>4, <1>6, <1>7, EndGoes DEF n, t
  <2>2. /\ Good(thens, start, holding, t \o a) /\ Goes(thens, start, holding, t \o a)
        /\ thens.names = e.names \cup NamesTo(a, Len(a))
    BY <1>3, <1>6, <2>1, BranchTold
  <2> HIDE DEF thens
  <2>3. /\ Good(w2, start, holding, t \o a) /\ w2.names = thens.names
        /\ w2.pending = {[from |-> n, output |-> 1]}
    <3>1. n \in thens.names \cup Starts
      BY <1>5, <2>2
    <3> QED
      BY <2>2, <3>1, Opened
  <2> HIDE DEF w2
  <2>4. Passes(w2, start, holding, t \o a)
    <3>1. 1 # Compiler!OutputOf(n, holding)
      BY <1>4, <1>7
    <3> QED
      BY <2>3, <3>1, OtherWay
  <2>5. /\ Good(elses, start, holding, t \o a) /\ Passes(elses, start, holding, t \o a)
        /\ elses.names = thens.names \cup NamesTo(b, Len(b))
    <3>1. BranchFits(w2.names, b)
      BY <1>3, <2>2, <2>3
    <3> QED
      BY <2>3, <2>4, <3>1, BranchPassed
  <2> HIDE DEF elses
  <2>6. \A p \in thens.pending : p.from \in elses.names \cup Starts
    BY <2>2, <2>5 DEF Good, WellFormed
  <2>7. /\ Good(v, start, holding, t \o a) /\ v.names = elses.names
        /\ v.pending = thens.pending \cup elses.pending
    BY <2>5, <2>6, JoinedIsGood
  <2> HIDE DEF v
  <2>8. Goes(v, start, holding, t \o a)
    BY <2>2, <2>5, <2>7 DEF Goes, Passes
  <2>9. IdsOf(v.names) = IdsOf(w.names) \cup Compiler!Ids(s)
    BY <1>3, <2>2, <2>5, <2>7
  <2> QED
    BY <1>1, <1>7, <2>7, <2>8, <2>9 DEF t, a
<1>8. CASE s.id \notin holding
  <2>1. Passes(w1, start, holding, t)
    <3>1. 0 # Compiler!OutputOf(n, holding)
      BY <1>4, <1>8
    <3> QED
      BY <1>6, <3>1, OtherWay
  <2>2. /\ Good(thens, start, holding, t) /\ Passes(thens, start, holding, t)
        /\ thens.names = e.names \cup NamesTo(a, Len(a))
    BY <1>3, <1>6, <2>1, BranchPassed
  <2> HIDE DEF thens
  <2>3. /\ Good(w2, start, holding, t) /\ w2.names = thens.names
        /\ w2.pending = {[from |-> n, output |-> 1]}
    <3>1. n \in thens.names \cup Starts
      BY <1>5, <2>2
    <3> QED
      BY <2>2, <3>1, Opened
  <2> HIDE DEF w2
  <2>4. Goes(w2, start, holding, t)
    <3>1. w2.pending = {[from |-> n, output |-> Compiler!OutputOf(n, holding)]}
      BY <1>4, <1>8, <2>3
    <3> QED
      BY <1>2, <3>1, EndGoes DEF n, t
  <2>5. /\ Good(elses, start, holding, t \o b) /\ Goes(elses, start, holding, t \o b)
        /\ elses.names = thens.names \cup NamesTo(b, Len(b))
    <3>1. BranchFits(w2.names, b)
      BY <1>3, <2>2, <2>3
    <3> QED
      BY <2>3, <2>4, <3>1, BranchTold
  <2> HIDE DEF elses
  <2>6. \A p \in thens.pending : p.from \in thens.names \cup Starts
    BY <2>2 DEF Good, WellFormed
  <2>7. /\ Good(v, start, holding, t \o b) /\ v.names = elses.names
        /\ v.pending = thens.pending \cup elses.pending
    <3>1. \A p \in thens.pending : p.from \in elses.names \cup Starts
      BY <2>5, <2>6
    <3> QED
      BY <2>5, <3>1, JoinedIsGood
  <2> HIDE DEF v
  <2>8. \A p \in thens.pending : ~ Live(p, start, holding, t \o b)
    <3>1. \A p \in thens.pending : ~ Live(p, start, holding, t)
      BY <2>2 DEF Passes
    <3>2. BranchFits(thens.names, b)
      BY <1>3, <2>2
    <3> QED
      BY <1>2, <2>6, <3>1, <3>2, StaysPassed
  <2>9. Goes(v, start, holding, t \o b)
    BY <2>5, <2>7, <2>8 DEF Goes
  <2>10. IdsOf(v.names) = IdsOf(w.names) \cup Compiler!Ids(s)
    BY <1>3, <2>2, <2>5, <2>7
  <2> QED
    BY <1>1, <1>8, <2>7, <2>9, <2>10 DEF t, b
<1> QED
  BY <1>7, <1>8

\* A step is told next, with the branch that applies.
LEMMA EmitTold ==
    ASSUME NEW w, NEW s, Admits(w.names, s), NEW start \in Starts, NEW holding, NEW told,
           Good(w, start, holding, told), Goes(w, start, holding, told)
    PROVE  LET v == Compiler!Emit(w, s)
               t == told \o Part(s, holding)
           IN  /\ Good(v, start, holding, t) /\ Goes(v, start, holding, t)
               /\ IdsOf(v.names) = IdsOf(w.names) \cup Compiler!Ids(s)
<1>1. told \in Seq(Step)
  BY Entered
<1>2. CASE Compiler!IsCondition(s)
  <2>1. told \o Part(s, holding) = Append(told, s) \o
           (IF s.id \in holding THEN s.then_steps ELSE s.else_steps)
    BY <1>1, <1>2, PartOf
  <2> QED
    BY <1>2, <2>1, ConditionTold
<1>3. CASE ~ Compiler!IsCondition(s)
  <2>1. told \o Part(s, holding) = Append(told, s)
    BY <1>1, <1>3, PartOf
  <2>2. Compiler!Emit(w, s) = Compiler!Connect(w, s)
    BY <1>3 DEF Compiler!Emit
  <2> DEFINE v == Compiler!Connect(w, s)
  <2>3. /\ Good(v, start, holding, Append(told, s))
        /\ v.names = w.names \cup {Compiler!NodeName(s)}
        /\ v.pending = {[from |-> Compiler!NodeName(s), output |-> 0]}
        /\ s \in Step
    BY Entered DEF Admits
  <2> HIDE DEF v
  <2>4. Compiler!OutputOf(Compiler!NodeName(s), holding) = 0
    BY <1>3, NamesAreNoStarts DEF Compiler!OutputOf, Compiler!IsCondition
  <2>5. Goes(v, start, holding, Append(told, s))
    <3>1. v.pending = {[from   |-> Compiler!NodeName(s),
                        output |-> Compiler!OutputOf(Compiler!NodeName(s), holding)]}
      BY <2>3, <2>4
    <3> QED
      BY <1>1, <2>3, <3>1, EndGoes
  <2>6. IdsOf(v.names) = IdsOf(w.names) \cup Compiler!Ids(s)
    <3>1. Compiler!NodeName(s).id = s.id
      BY NamesAreNoStarts
    <3>2. Compiler!Ids(s) = {s.id}
      BY <1>3 DEF Compiler!Ids
    <3> QED
      BY <2>3, <3>1, <3>2 DEF IdsOf
  <2> QED
    BY <2>1, <2>2, <2>3, <2>5, <2>6 DEF v
<1> QED
  BY <1>2, <1>3

-----------------------------------------------------------------------------
(* A recipe. *)

\* Where the compiler begins.
Begun(kind) == [nodes   |-> <<>>,
                names   |-> {},
                edges   |-> {},
                pending |-> {[from |-> x, output |-> 0] : x \in Compiler!Triggers(kind)}]

\* What FoldLeft chooses when it emits the steps.
Emits(h, base, seq, D) ==
    h = [s \in SUBSET D |->
           IF s = {} THEN base ELSE Compiler!Emit(h[s \ {Texts!Max(s)}], seq[Texts!Max(s)])]

\* The work after each step.
EmitsInTurn(work, kind, steps) ==
    /\ work[0] = Begun(kind)
    /\ \A k \in Nat : k + 1 <= Len(steps) =>
          work[k + 1] = Compiler!Emit(work[k], steps[k + 1])
    /\ Compiler!Compile(kind, steps) = work[Len(steps)]

\* Compiling goes through the steps in turn.
LEMMA CompileRounds ==
    ASSUME NEW kind, NEW steps \in Seq(Step)
    PROVE  \E work : EmitsInTurn(work, kind, steps)
<1> DEFINE n == Len(steps)
           g == CHOOSE h : Emits(h, Begun(kind), steps, DOMAIN steps)
<1>0. n \in Nat /\ DOMAIN steps = 1..n
  OBVIOUS
<1>1. Compiler!Compile(kind, steps) = g[1..n]
  <2>1. Compiler!Compile(kind, steps) = g[DOMAIN steps]
    BY DEF Compiler!Compile, Compiler!FoldLeft, Compiler!MapThenFoldSet,
           Compiler!Max, Texts!Max, Emits, Begun
  <2> QED
    BY <1>0, <2>1
<1> HIDE DEF n
<1>2. \A h : Emits(h, Begun(kind), steps, 1..n) <=> Computes(h, "emit", Begun(kind), steps, 1..n)
  BY DEF Emits, Computes, Does
<1>3. Emits(g, Begun(kind), steps, 1..n)
  <2>1. \E h : Emits(h, Begun(kind), steps, 1..n)
    BY <1>0, <1>2, ComputesExists
  <2> QED
    BY <1>0, <2>1
<1> HIDE DEF g
<1>4a. PICK work : InTurn(work, "emit", Begun(kind), steps, n, g[1..n])
  <2>1. Computes(g, "emit", Begun(kind), steps, 1..n)
    BY <1>2, <1>3
  <2> QED
    BY <1>0, <2>1, LoopRounds
<1>4. /\ work[0] = Begun(kind) /\ g[1..n] = work[n]
      /\ \A k \in 1..n : work[k] = Does("emit", work[k - 1], steps[k])
  BY <1>4a DEF InTurn
<1>5. ASSUME NEW k \in Nat, k + 1 <= n
      PROVE  work[k + 1] = Compiler!Emit(work[k], steps[k + 1])
  <2>1. k + 1 \in 1..n /\ (k + 1) - 1 = k
    BY <1>0, <1>5
  <2>2. work[k + 1] = Does("emit", work[(k + 1) - 1], steps[k + 1])
    BY <1>4, <2>1
  <2> QED
    BY <2>1, <2>2 DEF Does
<1>6. EmitsInTurn(work, kind, steps)
  BY <1>1, <1>4, <1>5 DEF n, EmitsInTurn
<1> QED
  BY <1>6

\* What a recipe means, step after step.
MeansInTurn(told, steps, holding) ==
    /\ told[0] = <<>>
    /\ \A k \in Nat : k + 1 <= Len(steps) =>
          told[k + 1] = told[k] \o Part(steps[k + 1], holding)
    /\ Compiler!Meaning(steps, holding) = told[Len(steps)]

\* The meaning is joined from the parts in turn.
LEMMA MeaningRounds ==
    ASSUME NEW steps \in Seq(Step), Len(steps) >= 1, NEW holding,
           \A k \in 1..Len(steps) : Part(steps[k], holding) \in Seq(Step)
    PROVE  \E told : MeansInTurn(told, steps, holding)
<1> DEFINE n == Len(steps)
           parts == [k \in DOMAIN steps |-> Part(steps[k], holding)]
           f == CHOOSE h : Joins(h, parts, Len(parts))
           told == [i \in 0..n |-> IF i = 0 THEN <<>> ELSE f[i]]
<1>1. /\ parts \in Seq(Seq(Step)) /\ Len(parts) = n
      /\ \A k \in 1..n : parts[k] = Part(steps[k], holding)
  OBVIOUS
<1>0. n \in Nat /\ n >= 1
  OBVIOUS
<1>2. Compiler!Meaning(steps, holding) = Compiler!FlattenSeq(parts)
  BY DEF Compiler!Meaning, Part
<1> HIDE DEF parts, n
<1>3. Joins(f, parts, n)
  <2>1. \E h : Joins(h, parts, Len(parts))
    BY <1>0, <1>1, JoinsExists
  <2> QED
    BY <1>1, <2>1
<1>4. Compiler!FlattenSeq(parts) = f[n]
  <2>1. Compiler!FlattenSeq(parts) = f[Len(parts)]
    BY <1>0, <1>1 DEF Compiler!FlattenSeq, Joins
  <2> HIDE DEF f
  <2> QED
    BY <1>1, <2>1
<1> HIDE DEF f
<1>5. told[0] = <<>> /\ \A i \in 1..n : told[i] = f[i]
  BY <1>0
<1> HIDE DEF told
<1>6. ASSUME NEW k \in Nat, k + 1 <= n
      PROVE  told[k + 1] = told[k] \o Part(steps[k + 1], holding)
  <2>1. k + 1 \in 1..n
    BY <1>0, <1>6
  <2>2. told[k + 1] = IF k = 0 THEN parts[k + 1] ELSE f[k] \o parts[k + 1]
    BY <1>0, <1>3, <1>5, <2>1, NextJoin
  <2>3. parts[k + 1] = Part(steps[k + 1], holding) /\ parts[k + 1] \in Seq(Step)
    BY <1>1, <2>1
  <2>4. CASE k = 0
    <3>1. <<>> \o parts[k + 1] = parts[k + 1]
      BY <2>3, ConcatEmptySeq
    <3> QED
      BY <1>5, <2>2, <2>3, <2>4, <3>1
  <2>5. CASE k # 0
    <3>1. k \in 1..n
      BY <1>0, <1>6, <2>5
    <3> QED
      BY <1>5, <2>2, <2>3, <2>5, <3>1
  <2> QED
    BY <2>4, <2>5
<1>7. Compiler!Meaning(steps, holding) = told[n]
  BY <1>0, <1>2, <1>4, <1>5
<1>8. MeansInTurn(told, steps, holding)
  BY <1>5, <1>6, <1>7 DEF n, MeansInTurn
<1> QED
  BY <1>8

\* Before the first step nothing is told, and the run stands at its trigger.
LEMMA BegunIsGood ==
    ASSUME NEW kind, NEW start \in Compiler!Triggers(kind), NEW holding
    PROVE  /\ start \in Starts
           /\ Good(Begun(kind), start, holding, <<>>)
           /\ Goes(Begun(kind), start, holding, <<>>)
           /\ IdsOf(Begun(kind).names) = {}
<1> DEFINE w == Begun(kind)
           end(x) == [from |-> x, output |-> 0]
<1>1. Compiler!Triggers(kind) \subseteq Starts
  BY DEF Compiler!Triggers, Starts
<1>2. /\ w = [nodes |-> w.nodes, names |-> w.names, edges |-> w.edges, pending |-> w.pending]
      /\ w.nodes = <<>> /\ w.names = {} /\ w.edges = {}
      /\ w.pending = {end(x) : x \in Compiler!Triggers(kind)}
  BY DEF Begun
<1>3. \A x : end(x).from = x /\ end(x).output = 0
  OBVIOUS
<1> HIDE DEF w, end
<1>4. Len(<<>>) = 0 /\ 0..0 = {0} /\ 1..0 = {} /\ <<>> \in Seq(Step)
  OBVIOUS
<1>5. WellFormed(w)
  <2>1. w.nodes \in Seq({}) /\ DOMAIN w.nodes = {}
    BY <1>2
  <2>2. \A p \in w.pending : p.from \in w.names \cup Starts
    BY <1>1, <1>2, <1>3
  <2> QED
    BY <1>2, <2>1, <2>2 DEF WellFormed
<1>6. Follows(w, start, holding, <<>>)
  <2>1. Compiler!After(w.edges, Place(start, <<>>, 0), holding) = {}
    BY <1>2 DEF Compiler!After
  <2>2. \A i \in 0..Len(<<>>) : i = 0
    BY <1>4
  <2>3. \A i \in 0..Len(<<>>) :
           Compiler!After(w.edges, Place(start, <<>>, i), holding)
              = IF i < Len(<<>>) THEN {Place(start, <<>>, i + 1)} ELSE {}
    <3> SUFFICES ASSUME NEW i \in 0..Len(<<>>)
                 PROVE  Compiler!After(w.edges, Place(start, <<>>, i), holding)
                           = IF i < Len(<<>>) THEN {Place(start, <<>>, i + 1)} ELSE {}
      OBVIOUS
    <3>1. i = 0 /\ ~ (i < Len(<<>>))
      BY <1>4, <2>2
    <3>2. Compiler!After(w.edges, Place(start, <<>>, i), holding) = {}
      BY <2>1, <3>1
    <3> QED
      BY <3>1, <3>2
  <2>4. \A i \in 0..Len(<<>>) :
           i < Len(<<>>) => Place(start, <<>>, i) # Place(start, <<>>, Len(<<>>))
    BY <1>4, <2>2
  <2>5. \A i \in 1..Len(<<>>) : Place(start, <<>>, i) \in w.names
    BY <1>4
  <2> QED
    BY <1>4, <2>3, <2>4, <2>5 DEF Follows
<1>7. ReadsBack(w, <<>>)
  BY <1>4 DEF ReadsBack
<1>8. Compiler!OutputOf(start, holding) = 0
  BY <1>1 DEF Compiler!OutputOf, Starts
<1>9. Place(start, <<>>, 0) = start
  BY DEF Place
<1>10. Goes(w, start, holding, <<>>)
  <2>1. end(start) \in w.pending
    BY <1>2
  <2>2. Live(end(start), start, holding, <<>>)
    BY <1>3, <1>4, <1>8, <1>9 DEF Live
  <2>3. \A p : Live(p, start, holding, <<>>) => p.from = Place(start, <<>>, Len(<<>>))
    BY <1>4 DEF Live
  <2> QED
    BY <2>1, <2>2, <2>3 DEF Goes
<1>11. IdsOf(w.names) = {}
  BY <1>2 DEF IdsOf
<1> QED
  BY <1>1, <1>5, <1>6, <1>7, <1>10, <1>11 DEF Good, w

\* What the schema accepts fits, step after step.
LEMMA AcceptedAdmits ==
    ASSUME Compiler!CompilerAssumption, NEW steps \in Seq(Step), Compiler!Accepted(steps),
           NEW k \in Nat, k + 1 <= Len(steps),
           NEW names, IdsOf(names) = Compiler!SeenBefore(steps, k + 1)
    PROVE  /\ Admits(names, steps[k + 1])
           /\ Compiler!SeenBefore(steps, k + 2) =
                 Compiler!SeenBefore(steps, k + 1) \cup Compiler!Ids(steps[k + 1])
<1> DEFINE s == steps[k + 1]
<1>1. k + 1 \in DOMAIN steps /\ s \in Step
  OBVIOUS
<1>2. Compiler!UniqueIds(steps, k + 1) /\ Compiler!RefersBack(steps, k + 1)
  BY <1>1 DEF Compiler!Accepted
<1>3. Compiler!IsCondition(s) =>
         s.then_steps \in Seq(Compiler!Actions) /\ s.else_steps \in Seq(Compiler!Actions)
  BY <1>1 DEF Compiler!CompilerAssumption
<1>4. Admits(names, s)
  BY <1>1, <1>2, <1>3 DEF Compiler!UniqueIds, Compiler!RefersBack, Admits
<1>5. Compiler!SeenBefore(steps, k + 2) = Compiler!SeenBefore(steps, k + 1) \cup Compiler!Ids(s)
  <2>1. 1..((k + 2) - 1) = (1..((k + 1) - 1)) \cup {k + 1}
    OBVIOUS
  <2> QED
    BY <2>1 DEF Compiler!SeenBefore
<1> QED
  BY <1>4, <1>5

\* The compiled recipe tells what the recipe means.
LEMMA CompiledTells ==
    ASSUME Compiler!CompilerAssumption, NEW steps \in Seq(Step), Compiler!Accepted(steps),
           NEW kind, NEW start \in Compiler!Triggers(kind), NEW holding
    PROVE  Good(Compiler!Compile(kind, steps), start, holding, Compiler!Meaning(steps, holding))
<1>0. Len(steps) \in Nat /\ Len(steps) >= 1
  BY DEF Compiler!Accepted
<1>1a. PICK work : EmitsInTurn(work, kind, steps)
  BY CompileRounds
<1>1. /\ work[0] = Begun(kind)
      /\ \A k \in Nat : k + 1 <= Len(steps) =>
            work[k + 1] = Compiler!Emit(work[k], steps[k + 1])
      /\ Compiler!Compile(kind, steps) = work[Len(steps)]
  BY <1>1a DEF EmitsInTurn
<1>2. \A k \in 1..Len(steps) : Part(steps[k], holding) \in Seq(Step)
  <2> SUFFICES ASSUME NEW k \in 1..Len(steps) PROVE Part(steps[k], holding) \in Seq(Step)
    OBVIOUS
  <2> DEFINE s == steps[k]
  <2>1. s \in Step /\ <<s>> \in Seq(Step) /\ <<>> \in Seq(Step)
    OBVIOUS
  <2>2. Compiler!IsCondition(s) => s.then_steps \in Seq(Step) /\ s.else_steps \in Seq(Step)
    <3>1. \A c \in Seq(Compiler!Actions) : c \in Seq(Step)
      BY DEF Compiler!Actions
    <3> QED
      BY <2>1, <3>1 DEF Compiler!CompilerAssumption
  <2> HIDE DEF s
  <2>3. \A x \in Seq(Step) : <<s>> \o x \in Seq(Step)
    BY <2>1, ConcatProperties
  <2> QED
    BY <2>1, <2>2, <2>3 DEF Part, s
<1>3a. PICK told : MeansInTurn(told, steps, holding)
  BY <1>0, <1>2, MeaningRounds
<1>3. /\ told[0] = <<>>
      /\ \A k \in Nat : k + 1 <= Len(steps) =>
            told[k + 1] = told[k] \o Part(steps[k + 1], holding)
      /\ Compiler!Meaning(steps, holding) = told[Len(steps)]
  BY <1>3a DEF MeansInTurn
<1>4. start \in Starts
  BY BegunIsGood
<1> DEFINE Holds(k) == /\ Good(work[k], start, holding, told[k])
                       /\ Goes(work[k], start, holding, told[k])
                       /\ IdsOf(work[k].names) = Compiler!SeenBefore(steps, k + 1)
           S == {k \in Nat : k <= Len(steps) => Holds(k)}
<1>5. 0 \in S
  <2>1. Compiler!SeenBefore(steps, 0 + 1) = {}
    BY DEF Compiler!SeenBefore
  <2>2. IdsOf(Begun(kind).names) = {} /\ Good(Begun(kind), start, holding, <<>>)
        /\ Goes(Begun(kind), start, holding, <<>>)
    BY BegunIsGood
  <2> QED
    BY <1>1, <1>3, <2>1, <2>2
<1>6. ASSUME NEW k \in Nat, k \in S PROVE k + 1 \in S
  <2> SUFFICES ASSUME k + 1 <= Len(steps) PROVE Holds(k + 1)
    OBVIOUS
  <2> DEFINE s == steps[k + 1]
             u == work[k]
             t == told[k]
  <2>1. /\ Good(u, start, holding, t) /\ Goes(u, start, holding, t)
        /\ IdsOf(u.names) = Compiler!SeenBefore(steps, k + 1)
    BY <1>0, <1>6
  <2>2. /\ Admits(u.names, s)
        /\ Compiler!SeenBefore(steps, k + 2) =
              Compiler!SeenBefore(steps, k + 1) \cup Compiler!Ids(s)
    BY <2>1, AcceptedAdmits
  <2>3. work[k + 1] = Compiler!Emit(u, s)
    BY <1>1
  <2>4. told[k + 1] = t \o Part(s, holding)
    BY <1>3
  <2> HIDE DEF s, u, t
  <2>5. /\ Good(Compiler!Emit(u, s), start, holding, t \o Part(s, holding))
        /\ Goes(Compiler!Emit(u, s), start, holding, t \o Part(s, holding))
        /\ IdsOf(Compiler!Emit(u, s).names) = IdsOf(u.names) \cup Compiler!Ids(s)
    BY <1>4, <2>1, <2>2, EmitTold
  <2>6. (k + 1) + 1 = k + 2
    OBVIOUS
  <2> QED
    BY <2>1, <2>2, <2>3, <2>4, <2>5, <2>6
<1> HIDE DEF S
<1>7. Nat \subseteq S
  BY <1>5, <1>6, Induction
<1>8. Holds(Len(steps))
  BY <1>0, <1>7 DEF S
<1> QED
  BY <1>1, <1>3, <1>8

-----------------------------------------------------------------------------
(* A run of the compiled recipe. *)

\* The nodes of each round.
Runs(run, w, start, holding) ==
    run = [k \in 0..Len(w.nodes) |->
             IF k = 0 THEN {start}
             ELSE UNION {Compiler!After(w.edges, m, holding) : m \in run[k - 1]}]

\* The places passed, one a round, and then nothing.
Passed(w, start, told) ==
    [k \in 0..Len(w.nodes) |-> IF k <= Len(told) THEN {Place(start, told, k)} ELSE {}]

\* The places passed are an account of the rounds.
LEMMA PassedRuns ==
    ASSUME NEW w, NEW start, NEW holding, NEW told, Good(w, start, holding, told)
    PROVE  Runs(Passed(w, start, told), w, start, holding)
<1> DEFINE run == Passed(w, start, told)
           next(k) == UNION {Compiler!After(w.edges, m, holding) : m \in run[k - 1]}
<1>0. Follows(w, start, holding, told)
  BY DEF Good
<1>1. Len(told) \in Nat
  BY <1>0 DEF Follows
<1>2. ASSUME NEW k \in 0..Len(w.nodes)
      PROVE  run[k] = IF k = 0 THEN {start} ELSE next(k)
  <2>1. CASE k = 0
    BY <1>1, <2>1 DEF Passed, Place
  <2>2. CASE k # 0
    <3>1. Len(w.nodes) \in Nat
      BY DEF Good, WellFormed
    <3>2. k - 1 \in 0..Len(w.nodes) /\ k \in Nat /\ k - 1 \in Nat /\ (k - 1) + 1 = k
      BY <2>2, <3>1
    <3>3. CASE k - 1 <= Len(told)
      <4>1. run[k - 1] = {Place(start, told, k - 1)}
        BY <3>2, <3>3 DEF Passed
      <4>2. next(k) = Compiler!After(w.edges, Place(start, told, k - 1), holding)
        <5> HIDE DEF run
        <5> QED
          BY <4>1
      <4>3. k - 1 \in 0..Len(told)
        BY <1>1, <3>2, <3>3
      <4>4. next(k) = IF k - 1 < Len(told) THEN {Place(start, told, (k - 1) + 1)} ELSE {}
        BY <1>0, <4>2, <4>3 DEF Follows
      <4>5. k - 1 < Len(told) <=> k <= Len(told)
        BY <1>1, <3>2
      <4>6. run[k] = IF k <= Len(told) THEN {Place(start, told, k)} ELSE {}
        BY DEF Passed
      <4> HIDE DEF run, next
      <4> QED
        BY <2>2, <3>2, <4>4, <4>5, <4>6
    <3>4. CASE ~ (k - 1 <= Len(told))
      <4>1. run[k - 1] = {}
        BY <3>2, <3>4 DEF Passed
      <4>2. next(k) = {}
        <5> HIDE DEF run
        <5> QED
          BY <4>1
      <4>3. ~ (k <= Len(told))
        BY <1>1, <3>2, <3>4
      <4>4. run[k] = {}
        BY <4>3 DEF Passed
      <4> HIDE DEF run, next
      <4> QED
        BY <2>2, <4>2, <4>4
    <3> QED
      BY <3>3, <3>4
  <2> QED
    BY <2>1, <2>2
<1>3. run = [k \in 0..Len(w.nodes) |-> run[k]]
  BY DEF Passed
<1> HIDE DEF run
<1> QED
  BY <1>2, <1>3 DEF Runs, run

\* The rounds are decided: two accounts of them agree.
LEMMA RunsAgree ==
    ASSUME NEW w, NEW start, NEW holding, Len(w.nodes) \in Nat,
           NEW f, NEW g, Runs(f, w, start, holding), Runs(g, w, start, holding)
    PROVE  \A k \in 0..Len(w.nodes) : f[k] = g[k]
<1> DEFINE n == Len(w.nodes)
           F(h, k) == UNION {Compiler!After(w.edges, m, holding) : m \in h[k - 1]}
           S == {k \in Nat : k \in 0..n => f[k] = g[k]}
<1>1. \A k \in 0..n : /\ f[k] = IF k = 0 THEN {start} ELSE F(f, k)
                      /\ g[k] = IF k = 0 THEN {start} ELSE F(g, k)
  BY DEF Runs
<1>2. 0 \in S
  <2> HIDE DEF F
  <2> QED
    BY <1>1
<1>3. ASSUME NEW k \in Nat, k \in S PROVE k + 1 \in S
  <2> SUFFICES ASSUME k + 1 \in 0..n PROVE f[k + 1] = g[k + 1]
    OBVIOUS
  <2>1. k \in 0..n /\ k + 1 # 0 /\ (k + 1) - 1 = k
    OBVIOUS
  <2>2. f[k] = g[k]
    BY <1>3, <2>1
  <2>3. F(f, k + 1) = F(g, k + 1)
    BY <2>1, <2>2
  <2> HIDE DEF F
  <2> QED
    BY <1>1, <2>1, <2>3
<1> HIDE DEF S
<1>4. Nat \subseteq S
  BY <1>2, <1>3, Induction
<1> QED
  BY <1>4 DEF S

\* So each round runs the next step told, and then nothing.
LEMMA RoundIsPassed ==
    ASSUME NEW w, NEW start, NEW holding, NEW told, Good(w, start, holding, told)
    PROVE  /\ Len(w.nodes) \in Nat /\ Len(told) \in Nat
           /\ \A k \in 1..Len(w.nodes) :
                 /\ k > Len(told) => Compiler!Round(w, start, holding)[k] = {}
                 /\ ~ (k > Len(told)) =>
                       Compiler!Round(w, start, holding)[k] = {Compiler!NodeName(told[k])}
<1> DEFINE run == CHOOSE h : Runs(h, w, start, holding)
<1>1. Len(w.nodes) \in Nat /\ Len(told) \in Nat
  BY DEF Good, WellFormed, Follows
<1>2. Compiler!Round(w, start, holding) = run
  BY DEF Compiler!Round, Runs
<1>3. Runs(run, w, start, holding)
  BY PassedRuns
<1> HIDE DEF run
<1>4. \A k \in 0..Len(w.nodes) : run[k] = Passed(w, start, told)[k]
  BY <1>1, <1>3, PassedRuns, RunsAgree
<1>5. ASSUME NEW k \in 1..Len(w.nodes)
      PROVE  /\ k > Len(told) => run[k] = {}
             /\ ~ (k > Len(told)) => run[k] = {Compiler!NodeName(told[k])}
  <2>1. k \in 0..Len(w.nodes) /\ k # 0 /\ (k > Len(told) <=> ~ (k <= Len(told)))
    BY <1>1
  <2>2. Passed(w, start, told)[k] = IF k <= Len(told) THEN {Place(start, told, k)} ELSE {}
    BY <2>1 DEF Passed
  <2> QED
    BY <1>4, <2>1, <2>2 DEF Place
<1> QED
  BY <1>1, <1>2, <1>5

\* An accepted recipe is compiled to what it means.
LEMMA AcceptedMeans ==
    ASSUME Compiler!CompilerAssumption, draft \in Seq(Step),
           draft # <<>> => Compiler!Accepted(draft)
    PROVE  Compiler!CompiledMeansRecipe
<1> SUFFICES ASSUME Compiler!Accepted(draft) PROVE Compiler!CompiledMeansRecipe
  BY DEF Compiler!CompiledMeansRecipe
<1> DEFINE w == Compiler!Compile(trigger, draft)
           Tells(holding) == Compiler!Meaning(draft, holding)
           Skipped(holding) ==
               {n \in w.names :
                   n \notin {Compiler!NodeName(Tells(holding)[k]) : k \in DOMAIN Tells(holding)}}
<1>1. ASSUME NEW holding, NEW start \in Compiler!Triggers(trigger)
      PROVE  Good(w, start, holding, Tells(holding))
  BY CompiledTells
<1>2. \A k \in DOMAIN w.nodes : w.nodes[k].lost = {} /\ w.nodes[k].reads \subseteq w.names
  <2>1. Compiler!Webhook \in Compiler!Triggers(trigger)
    BY DEF Compiler!Triggers
  <2> HIDE DEF w, Tells
  <2>2. Good(w, Compiler!Webhook, {}, Tells({}))
    BY <1>1, <2>1
  <2> QED
    BY <2>2 DEF Good, WellFormed
<1> HIDE DEF w, Tells
<1>3. ASSUME NEW holding, NEW start \in Compiler!Triggers(trigger), NEW k \in 1..Len(w.nodes)
      PROVE  LET run == Compiler!Round(w, start, holding)
                 told == Tells(holding)
             IN  IF k > Len(told)
                 THEN run[k] = {}
                 ELSE /\ run[k] = {Compiler!NodeName(told[k])}
                      /\ \E j \in DOMAIN w.nodes :
                            /\ w.nodes[j].name = Compiler!NodeName(told[k])
                            /\ w.nodes[j].reads \subseteq
                                  {Compiler!NodeName(told[i]) : i \in 1..(k - 1)}
                                  \cup Skipped(holding)
  <2> DEFINE t == Tells(holding)
             run == Compiler!Round(w, start, holding)
  <2>1. Good(w, start, holding, t)
    BY <1>1
  <2>2. /\ Len(w.nodes) \in Nat /\ Len(t) \in Nat
        /\ run[k] = IF k > Len(t) THEN {} ELSE {Compiler!NodeName(t[k])}
    <3> HIDE DEF t
    <3> HIDE DEF t
    <3>1. /\ Len(w.nodes) \in Nat /\ Len(t) \in Nat
          /\ \A r \in 1..Len(w.nodes) :
                /\ r > Len(t) => Compiler!Round(w, start, holding)[r] = {}
                /\ ~ (r > Len(t)) =>
                      Compiler!Round(w, start, holding)[r] = {Compiler!NodeName(t[r])}
      BY <2>1, RoundIsPassed
    <3> QED
      BY <3>1
  <2>3. DOMAIN t = 1..Len(t)
    BY <2>1 DEF Good, Follows
  <2> HIDE DEF t, run
  <2>4. ASSUME ~ (k > Len(t))
        PROVE  \E j \in DOMAIN w.nodes :
                  /\ w.nodes[j].name = Compiler!NodeName(t[k])
                  /\ w.nodes[j].reads \subseteq
                        {Compiler!NodeName(t[i]) : i \in 1..(k - 1)} \cup Skipped(holding)
    <3>1. k \in 1..Len(t)
      BY <2>2, <2>4
    <3>2. PICK j \in DOMAIN w.nodes :
             /\ w.nodes[j].name = Compiler!NodeName(t[k])
             /\ \A i \in k..Len(t) : Compiler!NodeName(t[i]) \notin w.nodes[j].reads
      BY <2>1, <3>1 DEF Good, ReadsBack
    <3>3. ASSUME NEW x \in w.nodes[j].reads,
                 x \notin {Compiler!NodeName(t[i]) : i \in 1..(k - 1)}
          PROVE  x \in Skipped(holding)
      <4>1. x \in w.names
        BY <1>2
      <4>2. ASSUME NEW i \in 1..Len(t), x = Compiler!NodeName(t[i]) PROVE FALSE
        <5>1. CASE i \in k..Len(t)
          BY <3>2, <4>2, <5>1
        <5>2. CASE i \in 1..(k - 1)
          BY <3>3, <4>2, <5>2
        <5>3. i \in k..Len(t) \/ i \in 1..(k - 1)
          BY <2>2, <3>1
        <5> QED
          BY <5>1, <5>2, <5>3
      <4> QED
        BY <2>3, <4>1, <4>2 DEF t
    <3> HIDE DEF Skipped
    <3>4. w.nodes[j].reads \subseteq
             {Compiler!NodeName(t[i]) : i \in 1..(k - 1)} \cup Skipped(holding)
      BY <3>3
    <3> QED
      BY <3>2, <3>4
  <2> HIDE DEF Skipped
  <2> QED
    BY <2>2, <2>4 DEF t, run
<1> HIDE DEF Skipped
<1> QED
  <2>1. \A k \in DOMAIN w.nodes : w.nodes[k].lost = {}
    BY <1>2
  <2>2. \A holding \in SUBSET Compiler!Conditions(draft), start \in Compiler!Triggers(trigger) :
           LET run == Compiler!Round(w, start, holding)
               told == Tells(holding)
           IN  \A k \in 1..Len(w.nodes) :
                   IF k > Len(told)
                   THEN run[k] = {}
                   ELSE /\ run[k] = {Compiler!NodeName(told[k])}
                        /\ \E j \in DOMAIN w.nodes :
                              /\ w.nodes[j].name = Compiler!NodeName(told[k])
                              /\ w.nodes[j].reads \subseteq
                                    {Compiler!NodeName(told[i]) : i \in 1..(k - 1)}
                                    \cup Skipped(holding)
    BY <1>3
  <2> QED
    BY <2>1, <2>2, Zenon DEF Compiler!CompiledMeansRecipe, w, Tells, Skipped

\* The recipe stored is one the schema accepted.
RecipeInv == Compiler!TypeOK /\ (draft # <<>> => Compiler!Accepted(draft))

\* The stored recipe is accepted, and so compiled to what it means.
LEMMA RecipeMeans == ASSUME Compiler!CompilerAssumption
PROVE Compiler!Spec => []Compiler!CompiledMeansRecipe
<1>1. Compiler!Init => RecipeInv
  BY DEF Compiler!CompilerAssumption, Compiler!Init, Compiler!TypeOK, RecipeInv
<1>2. ASSUME RecipeInv, Compiler!TypeOK', [Compiler!Next]_(Compiler!vars)
      PROVE  RecipeInv'
  <2>1. ASSUME NEW step \in Step, Compiler!Extend(step) PROVE RecipeInv'
    <3>1. draft' = Append(draft, step) /\ Compiler!Accepted(Append(draft, step))
      BY <2>1 DEF Compiler!Extend
    <3>2. Compiler!Accepted(draft')
      BY <3>1
    <3> QED
      BY <1>2, <3>2 DEF RecipeInv
  <2>2. CASE UNCHANGED Compiler!vars
    BY <1>2, <2>2 DEF Compiler!vars, RecipeInv
  <2> QED
    BY <1>2, <2>1, <2>2 DEF Compiler!Next
<1>3. RecipeInv /\ Compiler!TypeOK' /\ [Compiler!Next]_(Compiler!vars) => RecipeInv'
  BY <1>2
<1>4. RecipeInv => Compiler!CompiledMeansRecipe
  BY AcceptedMeans DEF RecipeInv, Compiler!TypeOK
<1>5. Compiler!Spec => []Compiler!TypeOK
  BY RecipeTypes
<1> QED
  BY <1>1, <1>3, <1>4, <1>5, PTL DEF Compiler!Spec

-----------------------------------------------------------------------------
(* What a run makes of a reply. *)

\* Every run decides its own outcome, so each agent is checked by itself.
LEMMA BeginChecks ==
    ASSUME Replies!ReviewsAssumption, Replies!Begin
    PROVE  Replies!NothingIsGlossedOver'
<1> USE DEF Replies!NothingIsGlossedOver, Replies!LegalAccountsForAll,
            Replies!ListingIsJudged, Replies!BandHasGrounds,
            Replies!InvoiceShowsItsDoubts, Replies!DraftIsGrounded,
            Replies!DealerIsCleared, Replies!ProfileIsBounded, Replies!Run,
            Replies!Blocked
<1>1. ASSUME NEW n \in Nat, NEW reply, Replies!ReviewContract(n, reply)
      PROVE  Replies!NothingIsGlossedOver'
  BY <1>1
     DEF Replies!ReviewContract, Replies!LegalOutcome, Replies!BuildReview,
         Replies!Reported, Replies!Grounded, Replies!Listed
<1>2. ASSUME NEW reply, Replies!CheckListing(reply)
      PROVE  Replies!NothingIsGlossedOver'
  BY <1>2 DEF Replies!CheckListing, Replies!ListingOutcome, Replies!Listed
<1>3. ASSUME NEW reply, NEW n \in 0..1, Replies!IntakeVehicle(reply, n)
      PROVE  Replies!NothingIsGlossedOver'
  BY <1>3 DEF Replies!IntakeVehicle, Replies!VehicleOutcome
<1>4. ASSUME NEW reply \in Replies!Invoice \cup {Malformed},
             Replies!IntakeInvoice(reply)
      PROVE  Replies!NothingIsGlossedOver'
  <2>1. CASE reply = Malformed
    BY <1>4, <2>1 DEF Replies!IntakeInvoice
  <2>2. CASE reply # Malformed
    <3>1. /\ given' = [agent |-> "invoice_agent", reply |-> reply, before |-> seen]
          /\ outcome' = [status |-> "interrupt",
                         reasons |-> Replies!Reasons(reply, seen)]
      BY <1>4, <2>2 DEF Replies!IntakeInvoice
    <3>2. /\ reply.order = NoOrder => "not_found" \in Replies!Reasons(reply, seen)
          /\ "duplicate" \in Replies!Reasons(reply, seen) <=> reply.order \in seen
          /\ reply.order # NoOrder =>
                /\ "amount" \in Replies!Reasons(reply, seen)
                     <=> Replies!AmountMismatches(reply.amount, reply.order)
                /\ "vendor" \in Replies!Reasons(reply, seen)
                     <=> ~reply.vendor_matches
      BY DEF Replies!Reasons
    <3>3. ASSUME reply.order # NoOrder
          PROVE  Replies!AmountMismatches(reply.amount, reply.order)
                   <=> ~ (/\ 100 * reply.amount <= 101 * OrderAmount[reply.order]
                          /\ 100 * reply.amount >= 99 * OrderAmount[reply.order])
      <4>1. reply.amount \in Int /\ OrderAmount[reply.order] \in Nat
        BY <2>2, <3>3 DEF Replies!Invoice, Replies!ReviewsAssumption
      <4>2. ASSUME NEW a \in Int, NEW o \in Nat
            PROVE  (IF o = 0 THEN a # 0 ELSE Replies!Abs(a - o) * 100 > o)
                     <=> ~ (100 * a <= 101 * o /\ 100 * a >= 99 * o)
        BY DEF Replies!Abs
      <4> QED
        BY <4>1, <4>2 DEF Replies!AmountMismatches
    <3> QED
      BY <3>1, <3>2, <3>3
  <2> QED
    BY <2>1, <2>2
<1>5. ASSUME NEW kpis, NEW text, Replies!DraftInsights(kpis, text)
      PROVE  Replies!NothingIsGlossedOver'
  BY <1>5
     DEF Replies!DraftInsights, Replies!InsightsOutcome, Replies!Unmatched
<1>6. ASSUME NEW d \in Replies!Dossier, Replies!OnboardDealer(d)
      PROVE  Replies!NothingIsGlossedOver'
  BY <1>6
     DEF Replies!OnboardDealer, Replies!DealerOutcome, Replies!Missing,
         Replies!NameMismatch, Replies!FieldsFound, Replies!Dossier,
         Replies!RequiredFields, Replies!RequiredDocuments
<1>7. ASSUME NEW keys, NEW matched, Replies!ScreenCv(keys, matched)
      PROVE  Replies!NothingIsGlossedOver'
  BY <1>7 DEF Replies!ScreenCv, Replies!CvOutcome
<1> QED
  BY <1>1, <1>2, <1>3, <1>4, <1>5, <1>6, <1>7
     DEF Replies!Begin, Replies!ReviewsAssumption

LEMMA RepliesAreChecked == ASSUME Replies!ReviewsAssumption
PROVE Replies!Spec => []Replies!NothingIsGlossedOver
<1>1. given = Replies!NoRun => Replies!NothingIsGlossedOver
  BY DEF Replies!NoRun, Replies!NothingIsGlossedOver,
         Replies!LegalAccountsForAll, Replies!ListingIsJudged,
         Replies!BandHasGrounds, Replies!InvoiceShowsItsDoubts,
         Replies!DraftIsGrounded, Replies!DealerIsCleared,
         Replies!ProfileIsBounded
<1>2. Replies!Init => Replies!NothingIsGlossedOver
  BY <1>1 DEF Replies!Init
<1>3. Replies!NothingIsGlossedOver /\ [Replies!Next]_(Replies!vars)
        => Replies!NothingIsGlossedOver'
  <2> SUFFICES ASSUME Replies!NothingIsGlossedOver,
                      [Replies!Next]_(Replies!vars)
               PROVE  Replies!NothingIsGlossedOver'
    OBVIOUS
  <2>1. CASE Replies!Begin
    BY <2>1, BeginChecks
  <2>2. CASE Replies!Answered
    BY <1>1, <2>2 DEF Replies!Answered, Replies!NoRun,
         Replies!NothingIsGlossedOver,
         Replies!LegalAccountsForAll, Replies!ListingIsJudged,
         Replies!BandHasGrounds, Replies!InvoiceShowsItsDoubts,
         Replies!DraftIsGrounded, Replies!DealerIsCleared,
         Replies!ProfileIsBounded
  <2>3. CASE UNCHANGED Replies!vars
    BY <2>3 DEF Replies!vars, Replies!NothingIsGlossedOver,
         Replies!LegalAccountsForAll, Replies!ListingIsJudged,
         Replies!BandHasGrounds, Replies!InvoiceShowsItsDoubts,
         Replies!DraftIsGrounded, Replies!DealerIsCleared,
         Replies!ProfileIsBounded, Replies!AmountMismatches
  <2> QED
    BY <2>1, <2>2, <2>3 DEF Replies!Next
<1> QED
  BY <1>2, <1>3, PTL DEF Replies!Spec

-----------------------------------------------------------------------------
(* The platform.  A behaviour of the platform is a behaviour of each part: a
   step of another part is a stutter of this one. *)

\* What a step of the platform is to each part.
LEMMA PartsStep ==
    ASSUME [Next]_vars
    PROVE  /\ [Switch!Next]_(Switch!vars)
           /\ [Graph!Next]_(Graph!vars)
           /\ [Cache!Next]_(Cache!vars)
           /\ [Rights!Next]_(Rights!vars)
           /\ [Gate!Next]_(Gate!vars)
           /\ [Compiler!Next]_(Compiler!vars)
           /\ [Knowledge!Next]_(Knowledge!vars)
           /\ [Texts!Next]_(Texts!vars)
           /\ [Replies!Next]_(Replies!vars)
<1> USE DEF Next, vars, Others
<1>1. [Switch!Next]_(Switch!vars)
  BY DEF switchVars, Switch!vars
<1>2. [Graph!Next]_(Graph!vars)
  BY DEF graphVars, Graph!vars
<1>3. [Cache!Next]_(Cache!vars)
  BY DEF cacheVars, Cache!vars
<1>4. [Rights!Next]_(Rights!vars)
  BY DEF rightsVars, Rights!vars
<1>5. [Gate!Next]_(Gate!vars)
  BY DEF gateVars, Gate!vars
<1>6. [Compiler!Next]_(Compiler!vars)
  BY DEF compilerVars, Compiler!vars
<1>7. [Knowledge!Next]_(Knowledge!vars)
  BY DEF knowledgeVars, Knowledge!vars
<1>8. [Texts!Next]_(Texts!vars)
  BY DEF textsVars, Texts!vars
<1>9. [Replies!Next]_(Replies!vars)
  BY DEF repliesVars, Replies!vars
<1> QED
  BY <1>1, <1>2, <1>3, <1>4, <1>5, <1>6, <1>7, <1>8, <1>9

\* Each part keeps to its own specification, whatever part is followed.
THEOREM PartsAreFollowed ==
    Spec => /\ Switch!Spec /\ Graph!Spec /\ Cache!Spec /\ Rights!Spec
            /\ Gate!Spec /\ Compiler!Spec /\ Knowledge!Spec
            /\ Texts!Spec /\ Replies!Spec
<1>1. Init => /\ Switch!Init /\ Graph!Init /\ Cache!Init /\ Rights!Init
              /\ Gate!Init /\ Compiler!Init /\ Knowledge!Init
              /\ Texts!Init /\ Replies!Init
  BY DEF Init
<1>2. [Next]_vars => /\ [Switch!Next]_(Switch!vars)
                     /\ [Graph!Next]_(Graph!vars)
                     /\ [Cache!Next]_(Cache!vars)
                     /\ [Rights!Next]_(Rights!vars)
                     /\ [Gate!Next]_(Gate!vars)
                     /\ [Compiler!Next]_(Compiler!vars)
                     /\ [Knowledge!Next]_(Knowledge!vars)
                     /\ [Texts!Next]_(Texts!vars)
                     /\ [Replies!Next]_(Replies!vars)
  BY PartsStep
<1> QED
  BY <1>1, <1>2, PTL DEF Spec, Switch!Spec, Graph!Spec, Cache!Spec, Rights!Spec,
     Gate!Spec, Compiler!Spec, Knowledge!Spec, Texts!Spec, Replies!Spec

\* Every part keeps the types of its variables.
THEOREM TypeCorrect == Spec => []TypeOK
<1>1. Switch!Spec => []Switch!TypeOK
  BY Assumptions, SwitchTypes
<1>2. Graph!Spec => []Graph!TypeOK
  BY Assumptions, GraphTypes
<1>3. Cache!Spec => []Cache!TypeOK
  BY Assumptions, CacheTypes
<1>4. Rights!Spec => []Rights!TypeOK
  BY Assumptions, AccessTypes
<1>5. Gate!Spec => [](Gate!TypeOK /\ Gate!GateIsEarned)
  BY Assumptions, GateInvariant
<1>6. Compiler!Spec => []Compiler!TypeOK
  BY Assumptions, RecipeTypes
<1>7. Knowledge!Spec => []Knowledge!TypeOK
  BY Assumptions, KnowledgeTypes
<1> QED
  BY PartsAreFollowed, <1>1, <1>2, <1>3, <1>4, <1>5, <1>6, <1>7, PTL DEF TypeOK

\* No process runs a graph for longer than the TTL after the agent was paused:
\* KillSwitch.is_paused answers from its cache for that long (kill_switch.py).
THEOREM PauseReaches == Spec => []PauseReachesEveryProcess
BY Assumptions, PartsAreFollowed, SwitchPauses, PTL DEF PauseReachesEveryProcess

\* The status the registry shows is the flag the runtime obeys, unless two
\* requests overlapped, one broke off, or the row was renamed or deleted.
THEOREM StatusIsEnforced == Spec => []StatusAgrees
BY Assumptions, PartsAreFollowed, SwitchStatus, PTL DEF StatusAgrees

\* No tool that writes runs without the approval its call needs.
THEOREM WritesCleared == Spec => []WritesAreCleared
BY Assumptions, PartsAreFollowed, GraphWrites, PTL DEF WritesAreCleared

\* Once the platform is read-only no further write gets past execute_tool.
THEOREM ReadOnly == Spec => []ReadOnlyHolds
BY Assumptions, PartsAreFollowed, GraphReadOnly, PTL DEF ReadOnlyHolds

\* Who asks after a collection was invalidated is not served an answer of
\* before, unless an invalidation caught it on its way into the cache.
THEOREM Freshness == Spec => []ServedIsFresh
BY Assumptions, PartsAreFollowed, CacheFresh, PTL DEF ServedIsFresh

\* A role an administrator took away stays away until one gives it back:
\* get_current_user does not seed it again from the token, unless the person was
\* left without any role row or a login that had found none was still at work.
THEOREM Removal == Spec => []RemovedStaysRemoved
BY Assumptions, PartsAreFollowed, AccessRemoval, PTL DEF RemovedStaysRemoved

\* No request is let through by the role rows on a role that had been taken away
\* when it arrived, with the same two exceptions, nor on a key revoked or expired
\* (require_permission, validate_record).
THEOREM EditsDecide == Spec => []EditsReachRequests
BY Assumptions, PartsAreFollowed, AccessEdits, PTL DEF EditsReachRequests

\* A change goes through the evaluation gate only if cases were run to the end
\* and the threshold's share of them kept the hard asserts config.yaml names for
\* the suite, or were vehicle cases of a type no judge knows (runner.py).
THEOREM GateEarned == Spec => []GateIsEarned
BY Assumptions, PartsAreFollowed, GateInvariant, PTL DEF GateIsEarned

\* Whatever triggers an accepted recipe and however its conditions turn out, the
\* compiled workflow runs exactly its steps, in order, and each node that runs
\* reads only what ran before it or stands on a branch that did not run
\* (recipes/compiler.py).
THEOREM CompiledMeans == Spec => []CompiledMeansRecipe
BY Assumptions, PartsAreFollowed, RecipeMeans, PTL DEF CompiledMeansRecipe

\* What goes to a model goes under a sensitivity no lower than its collection
\* had when the upload or the question read it.
THEOREM Coverage == Spec => []SentIsCovered
BY Assumptions, PartsAreFollowed, KnowledgeCoverage, PTL DEF SentIsCovered

\* An answer that is not degraded cites passages the model was shown, under
\* their numbers, and what it was shown fits the cap or is one passage
\* (answer.py, retrieve.py).
THEOREM Grounding == Spec => []AnswerIsGrounded
BY Assumptions, PartsAreFollowed, KnowledgeGround, PTL DEF AnswerIsGrounded

\* Every word of a text is in one passage, in the order of the text, and no
\* passage is empty or over the limit (chunk_text).
THEOREM TextKept == Spec => []TextIsKept
BY Assumptions, PartsAreFollowed, TextsAreKept, PTL DEF TextIsKept

\* Nothing of what was found is left in a redacted passage, and all the rest is,
\* in its order (_redact).
THEOREM FindingsMasked == Spec => []FindingsAreMasked
BY Assumptions, PartsAreFollowed, FindingsStayMasked, PTL
   DEF FindingsAreMasked

\* Whatever a model replies, a run shows every doubt there is about what it was
\* given, and nothing that was not there, except that an object without its key
\* reads as an empty list and that a contract review drops entries which are not
\* objects (the agents' validators).
THEOREM NothingGlossedOver == Spec => []NothingIsGlossedOver
BY Assumptions, PartsAreFollowed, RepliesAreChecked, PTL
   DEF NothingIsGlossedOver
=============================================================================
