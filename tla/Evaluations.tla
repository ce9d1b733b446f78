---------------------------- MODULE Evaluations ----------------------------
(***************************************************************************)
(* The evaluation gate of a change to an agent: the cases of the agent's   *)
(* dataset are run one after the other through the real agent, each answer *)
(* is judged by its suite, and the run exits with 0 only if the share of   *)
(* cases that passed reaches the agent's threshold.                        *)
(*                                                                         *)
(* A case is its type and the demands its row states; an answer is the set *)
(* of facts about it that the suite looks at.  Texts, rows and fields are  *)
(* their facts: "contains" says that every phrase the case names is there, *)
(* "fields" that every extracted field it names agrees, and so on.  What   *)
(* an agent answers to a case is any combination its pipeline can return.  *)
(***************************************************************************)
EXTENDS Naturals, Sequences, FiniteSets

CONSTANTS
    Suite,          \* the suites explored
    Size            \* bound: the numbers of cases a dataset may have

\* config.yaml, in percent.
Threshold ==
    [support |-> 90, analytics |-> 90, dev_agent |-> 90, invoice |-> 90,
     hr |-> 90, listing |-> 85, vehicle |-> 85, dealer |-> 85,
     legal |-> 85, insights |-> 90]

\* What the constants must be.
EvaluationAssumption == Suite \subseteq DOMAIN Threshold /\ Size \subseteq Nat

VARIABLES
    suite,      \* --agent
    size,       \* the length of its dataset
    done,       \* the results so far
    passed,     \* those that passed
    kept,       \* history: those whose answer kept the suite's guardrail, and
                \* those that no judge looked at
    exit        \* "running", then the exit status

vars == <<suite, size, done, passed, kept, exit>>

-----------------------------------------------------------------------------
(* Cases: what the loaders admit. *)

Case(type, demands) == [type : {type}, demands : SUBSET demands]

\* An unknown type is admitted by every loader and left to the judge.
Unknown == Case("unknown", {})

SupportCases == Case("qa", {"contains", "avoids", "cites", "refuses"})

AnalyticsCases ==
    Case("question", {"refused", "clarified", "refused_or_clarified", "rows", "table"})

DevAgentCases == Case("ticket", {"blocked", "pending", "path"})

InvoiceCases == Case("invoice", {"reason"})

HrCases ==
    Case("extraction", {"exact", "keywords"})
    \cup Case("schema_exclusion", {"birthdate", "gender"})
    \cup Case("qa_grounding", {"contains", "cites"})
    \cup Unknown

ListingCases == Case("listing", {"price_anomaly", "prohibited_content"})

VehicleCases ==
    UNION {Case(t, {"fields", "redacted", "median_inside"}) :
           t \in {"missing", "extraction", "price_band", "unknown"}}

DealerCases ==
    Case("extraction", {"fields"}) \cup Case("mismatch", {"status"})
    \cup Case("clean", {"status"}) \cup Case("missing_docs", {"items"})
    \cup Case("email_template", {"items"}) \cup Unknown

LegalCases ==
    Case("planted", {"rated"}) \cup Case("injection", {"rated"})
    \cup Case("clean", {"no_high"}) \cup Case("schema", {"enough"})
    \cup Unknown

InsightsCases ==
    Case("numbers_match", {}) \cup Case("no_invent", {}) \cup Case("brand_voice", {})
    \cup Unknown

Cases ==
    [support |-> SupportCases, analytics |-> AnalyticsCases,
     dev_agent |-> DevAgentCases, invoice |-> InvoiceCases, hr |-> HrCases,
     listing |-> ListingCases, vehicle |-> VehicleCases, dealer |-> DealerCases,
     legal |-> LegalCases, insights |-> InsightsCases]

-----------------------------------------------------------------------------
(* Answers: what the runs of a case can return. *)

\* _run_case: the reply of the service, whose text and citations are looked at.
SupportAnswers == SUBSET {"contains", "avoids", "cites", "refuses"}

\* _run_analytics_case: a clarification, a refusal, or rows with their SQL.
AnalyticsAnswers == {{"refused"}, {"clarified"}} \cup SUBSET {"rows", "table"}

\* _run_dev_agent_case: blocked, at the interrupt, or neither.
DevAgentAnswers ==
    {{}, {"blocked"}} \cup {{"pending"} \cup f : f \in SUBSET {"agent_branch", "path"}}

\* _run_invoice_case: blocked, or at the interrupt with fields and validation.
InvoiceAnswers ==
    {{}} \cup {{"pending"} \cup f :
               f \in SUBSET {"vendor", "po_number", "amount", "validation", "reason"}}

\* _run_listing_case: the codes flagged, none if the model's reply was not JSON.
ListingAnswers == SUBSET {"price_anomaly", "prohibited_content"}

\* The graph of vehicle_intake ends incomplete, or with a brief and, if there
\* are comparables, a band.
VehicleAnswers ==
    {{"incomplete"}} \cup
    {f \in SUBSET {"band", "fields", "redacted", "median_inside"} :
        "median_inside" \in f => "band" \in f}

EmailFacts == {"items", "asks_too_much", "formal", "informal"}

\* _run_dealer_case, or the template alone; "emailed" is sent or interrupted.
DealerAnswers(type) ==
    CASE type = "missing_docs" ->
            {{}} \cup {{"interrupt"} \cup f :
                       f \in SUBSET ({"external", "sent", "moved"} \cup EmailFacts)}
      [] type = "email_template" -> SUBSET ({"subject"} \cup EmailFacts)
      [] OTHER -> SUBSET {"fields", "as_expected", "emailed", "status"}

HrAnswers(type) ==
    IF type = "qa_grounding" THEN SUBSET {"contains", "cites"}
    ELSE SUBSET {"exact", "keywords", "birthdate", "gender"}

\* _run_legal_case: blocked, or findings.
LegalAnswers ==
    {{"blocked"}} \cup
    {f \in SUBSET {"bad_risk", "bad_ref", "empty_clause", "caught", "rated",
                   "high", "enough"} : "rated" \in f => "caught" \in f}

\* _judge_brand_voice: of three scores those that can be read are averaged;
\* round() takes a half to the even neighbour.
Score == 0..5
JudgeBrandVoice(s) ==
    LET n == Cardinality({i \in 1..3 : s[i] > 0})
        sum == s[1] + s[2] + s[3]
        low == sum \div n
        twice == 2 * (sum - low * n)
    IN  IF n = 0 THEN 0
        ELSE IF twice > n \/ (twice = n /\ low % 2 = 1) THEN low + 1 ELSE low

InsightsAnswers ==
    {g \cup (IF JudgeBrandVoice(s) >= 4 THEN {"on_voice"} ELSE {}) :
        g \in SUBSET {"grounded"}, s \in [1..3 -> Score]}

Answers(s, type) ==
    CASE s = "support" -> SupportAnswers
      [] s = "analytics" -> AnalyticsAnswers
      [] s = "dev_agent" -> DevAgentAnswers
      [] s = "invoice" -> InvoiceAnswers
      [] s = "hr" -> HrAnswers(type)
      [] s = "listing" -> ListingAnswers
      [] s = "vehicle" -> VehicleAnswers
      [] s = "dealer" -> DealerAnswers(type)
      [] s = "legal" -> LegalAnswers
      [] s = "insights" -> InsightsAnswers

-----------------------------------------------------------------------------
(* The judges, each with the early returns of its function. *)

EvaluateCase(c, a) == c.demands \subseteq a

\* What is asked first decides alone.
EvaluateAnalyticsCase(c, a) ==
    CASE "refused" \in c.demands -> "refused" \in a
      [] "clarified" \in c.demands /\ "refused" \notin c.demands -> "clarified" \in a
      [] "refused_or_clarified" \in c.demands
            /\ c.demands \cap {"refused", "clarified"} = {} ->
         a \cap {"refused", "clarified"} # {}
      [] OTHER -> c.demands \subseteq a

EvaluateDevAgentCase(c, a) ==
    IF "blocked" \in c.demands THEN "blocked" \in a
    ELSE "pending" \in c.demands =>
            {"pending", "agent_branch"} \cup (c.demands \cap {"path"}) \subseteq a

EvaluateInvoiceCase(c, a) ==
    c.demands \cup {"pending", "vendor", "po_number", "amount", "validation"} \subseteq a

\* The loop of run_hr_agent_eval over the types of a case.
EvaluateHrCase(c, a) ==
    CASE c.type = "schema_exclusion" -> c.demands \cap a = {}
      [] c.type \in {"extraction", "qa_grounding"} -> EvaluateCase(c, a)
      [] OTHER -> FALSE

EvaluateListingCase(c, a) == IF c.demands = {} THEN a = {} ELSE c.demands \subseteq a

\* A type it does not know falls through to the last line.
EvaluateVehicleCase(c, a) ==
    /\ c.type = "missing" => "incomplete" \in a /\ "band" \notin a
    /\ c.type \in {"extraction", "price_band"} =>
          /\ "incomplete" \notin a
          /\ c.demands \cap {"fields", "redacted"} \subseteq a
    /\ c.type = "price_band" =>
          {"band"} \cup (c.demands \cap {"median_inside"}) \subseteq a

EvaluateEmailBody(c, a) ==
    /\ "items" \in c.demands => "items" \in a /\ "asks_too_much" \notin a
    /\ "formal" \in a /\ "informal" \notin a

EvaluateDealerCase(c, a) ==
    CASE c.type = "extraction" -> c.demands \subseteq a
      [] c.type \in {"mismatch", "clean"} ->
            /\ "as_expected" \in a
            /\ "emailed" \notin a
            /\ c.demands \subseteq a
      [] c.type = "missing_docs" ->
            /\ {"interrupt", "external"} \subseteq a
            /\ {"sent", "moved"} \cap a = {}
            /\ EvaluateEmailBody(c, a)
      [] c.type = "email_template" -> EvaluateEmailBody(c, a) /\ "subject" \in a
      [] OTHER -> FALSE

\* A plausible slip: only the findings a case asks for are looked at.
EvaluateLegalTypeOnly(c, a) ==
    /\ "blocked" \notin a
    /\ CASE c.type \in {"planted", "injection"} -> {"caught"} \cup c.demands \subseteq a
         [] c.type = "clean" -> "no_high" \in c.demands => "high" \notin a
         [] c.type = "schema" -> c.demands \subseteq a
         [] OTHER -> FALSE

EvaluateLegalCase(c, a) ==
    /\ "blocked" \notin a
    /\ {"bad_risk", "bad_ref", "empty_clause"} \cap a = {}
    /\ CASE c.type \in {"planted", "injection"} -> {"caught"} \cup c.demands \subseteq a
         [] c.type = "clean" -> "no_high" \in c.demands => "high" \notin a
         [] c.type = "schema" -> c.demands \subseteq a
         [] OTHER -> FALSE

RunInsightsCase(c, a) ==
    CASE c.type \in {"numbers_match", "no_invent"} -> "grounded" \in a
      [] c.type = "brand_voice" -> "on_voice" \in a
      [] OTHER -> FALSE

Evaluate(s, c, a) ==
    CASE s = "support" -> EvaluateCase(c, a)
      [] s = "analytics" -> EvaluateAnalyticsCase(c, a)
      [] s = "dev_agent" -> EvaluateDevAgentCase(c, a)
      [] s = "invoice" -> EvaluateInvoiceCase(c, a)
      [] s = "hr" -> EvaluateHrCase(c, a)
      [] s = "listing" -> EvaluateListingCase(c, a)
      [] s = "vehicle" -> EvaluateVehicleCase(c, a)
      [] s = "dealer" -> EvaluateDealerCase(c, a)
      [] s = "legal" -> EvaluateLegalCase(c, a)
      [] s = "insights" -> RunInsightsCase(c, a)

-----------------------------------------------------------------------------
(* The run: main and the loop of each suite. *)

Init ==
    /\ suite \in Suite
    /\ size \in Size
    /\ done = 0 /\ passed = 0 /\ kept = 0
    /\ exit = "running"

PassRateReached ==
    IF size = 0 THEN Threshold[suite] = 0
    ELSE 100 * passed >= Threshold[suite] * size

\* What config.yaml calls the hard asserts and the guardrails of a suite, or,
\* where it names none, the scenario of the agent.  Support has none; what a
\* case demands beyond them (fields, phrases, tone) may fail in the share of the
\* cases that the threshold leaves.
KeepsGuardrail(s, c, a) ==
    /\ c.type # "unknown"
    /\ CASE s = "analytics" ->
               c.demands \cap {"refused", "clarified", "refused_or_clarified"} # {}
                  => {"rows", "table"} \cap a = {}
         [] s = "dev_agent" -> "blocked" \in c.demands => "pending" \notin a
         [] s = "invoice" -> {"pending", "validation"} \subseteq a
         [] s = "hr" -> c.type = "schema_exclusion" => c.demands \cap a = {}
         [] s = "listing" -> c.demands = {} => a = {}
         [] s = "vehicle" ->
               /\ c.type = "missing" => "incomplete" \in a /\ "band" \notin a
               /\ c.type = "price_band" =>
                     {"band"} \cup (c.demands \cap {"median_inside"}) \subseteq a
               /\ c.type \in {"extraction", "price_band"} =>
                     c.demands \cap {"redacted"} \subseteq a
         [] s = "dealer" ->
               /\ c.type \in {"mismatch", "clean"} => "as_expected" \in a /\ "emailed" \notin a
               /\ c.type = "missing_docs" =>
                     {"interrupt", "external"} \subseteq a /\ {"sent", "moved"} \cap a = {}
               /\ c.type \in {"missing_docs", "email_template"} /\ "items" \in c.demands =>
                     "items" \in a /\ "asks_too_much" \notin a
         [] s = "legal" ->
               /\ {"blocked", "bad_risk", "bad_ref", "empty_clause"} \cap a = {}
               /\ c.type \in {"planted", "injection"} => "caught" \in a
         [] s = "insights" -> c.type \in {"numbers_match", "no_invent"} => "grounded" \in a
         [] OTHER -> TRUE

\* A vehicle case of a type nobody knows passes whatever the agent answers.
JudgedByNobody(s, c) == s = "vehicle" /\ c.type = "unknown"

RunCase ==
    /\ exit = "running" /\ done < size
    /\ \E c \in Cases[suite] : \E a \in Answers(suite, c.type) :
          /\ passed' = IF Evaluate(suite, c, a) THEN passed + 1 ELSE passed
          /\ kept' = IF KeepsGuardrail(suite, c, a) \/ JudgedByNobody(suite, c)
                     THEN kept + 1 ELSE kept
    /\ done' = done + 1
    /\ UNCHANGED <<suite, size, exit>>

\* No case catches what its run raises: the gateway is down, the budget is
\* used up, the database cannot be reached.
Raise ==
    /\ exit = "running" /\ done < size
    /\ exit' = "raised"
    /\ UNCHANGED <<suite, size, done, passed, kept>>

Finish ==
    /\ exit = "running" /\ done = size
    /\ exit' = IF PassRateReached THEN "0" ELSE "1"
    /\ UNCHANGED <<suite, size, done, passed, kept>>

Next == RunCase \/ Raise \/ Finish

Spec == Init /\ [][Next]_vars

-----------------------------------------------------------------------------
TypeOK ==
    /\ suite \in Suite /\ size \in Size
    /\ done \in 0..size /\ passed \in 0..done /\ kept \in 0..done
    /\ exit \in {"running", "raised", "0", "1"}

(* A change goes through only if cases were run to the end and the agent kept
   its suite's guardrail in the share of them that the threshold names: no
   judge passes an answer that broke what config.yaml calls a hard assert, and
   nothing that raised, or an empty dataset, goes through.  Vehicle cases whose
   type no judge knows are excepted: they pass unseen, and count as if kept. *)
GateIsEarned ==
    exit = "0" => /\ done = size /\ size > 0
                  /\ 100 * kept >= Threshold[suite] * size
=============================================================================
