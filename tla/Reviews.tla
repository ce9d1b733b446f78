------------------------------ MODULE Reviews -------------------------------
(***************************************************************************)
(* What the agents make of a model's reply before anybody acts on it: each *)
(* reply is checked against what the run was given, and the run ends       *)
(* blocked, completed, or at the interrupt of its approval (what happens   *)
(* from there is in Approvals.tla).                                        *)
(*                                                                         *)
(* A run goes through its nodes alone, so it is one action here: what came *)
(* from outside is "given", what the run ended with is "outcome".  A batch *)
(* of invoices shares the purchase orders seen so far.  The gate of the    *)
(* kill switch comes first in every graph (AgentGraph.tla) and is left out *)
(* here, as is an exception that ends a run without any outcome.           *)
(***************************************************************************)
EXTENDS Integers, Sequences, FiniteSets, FiniteSetsExt

CONSTANTS
    MaxItems,       \* bound: the entries of a reply
    Excerpts,       \* the numbers of playbook excerpts that may be retrieved
    Order,          \* the purchase orders on record
    NoOrder,        \* a number that is not on record
    OrderAmount,    \* their amounts
    Amount,         \* the amounts an invoice may show
    Figure,         \* the numbers a query may return or a draft may state
    Criterion,      \* the criteria of a role
    Malformed,      \* a reply, or an entry of one, that is not what was asked for
    Keyless         \* a JSON object without the key that was asked for

ReviewsAssumption ==
    /\ Excerpts \subseteq Nat
    /\ OrderAmount \in [Order -> Nat]
    /\ Amount \subseteq Int

VARIABLES
    seen,           \* the purchase orders the batch has met
    given,          \* what the run was given
    outcome         \* what it ended with

vars == <<seen, given, outcome>>

Blocked == [status |-> "blocked"]

Replies(S) == UNION {[1..n -> S] : n \in 0..MaxItems} \cup {Malformed, Keyless}

\* parse_findings and check_listing ask the object for its list and take an
\* empty one where there is none.
Listed(reply) == IF reply = Keyless THEN <<>> ELSE reply

NoRun == [agent |-> "none"]

Run(what, result) ==
    /\ given' = what
    /\ outcome' = result

-----------------------------------------------------------------------------
(* Legal review. *)

\* One entry of the reply, as build_review reads it: whether it names a clause,
\* calls it standard, rates it in the vocabulary, quotes the contract; and the
\* number of the excerpt it rests on, 0 for one that cannot be read.
Entry == [clause : BOOLEAN, standard : BOOLEAN, rated : BOOLEAN,
          position : 0..(Max(Excerpts) + 1), quoted : BOOLEAN]

\* parse_findings drops what is not an object; an entry without a clause is
\* empty, one that conforms is not a finding.
Reported(e) == e # Malformed /\ e.clause /\ ~e.standard

\* A plausible slip: an entry that does not quote the contract is let through.
GroundedByPlaybookOnly(e, excerpts) == e.rated /\ e.position \in 1..excerpts

\* The three reasons for which a finding is set aside.
Grounded(e, excerpts) ==
    /\ e.rated
    /\ e.position \in 1..excerpts
    /\ e.quoted

\* build_review: of the entries that are reported, by their places in the
\* reply, the findings and those set aside.
BuildReview(reply, excerpts) ==
    LET told == {k \in DOMAIN reply : Reported(reply[k])}
    IN  [status   |-> "completed",
         findings |-> {k \in told : Grounded(reply[k], excerpts)},
         uncited  |-> {k \in told : ~Grounded(reply[k], excerpts)}]

\* The graph of legal_review: without excerpts nothing is asked, and nothing
\* may pass for a clean review.
LegalOutcome(excerpts, reply) ==
    IF excerpts = 0 \/ reply = Malformed THEN Blocked
    ELSE BuildReview(Listed(reply), excerpts)

ReviewContract(excerpts, reply) ==
    /\ Run([agent |-> "legal_review", excerpts |-> excerpts, reply |-> reply],
           LegalOutcome(excerpts, reply))
    /\ UNCHANGED seen

-----------------------------------------------------------------------------
(* Listing quality. *)

ReasonCodes == {"photo_description_mismatch", "blurred_plate_missing",
                "prohibited_content", "price_anomaly"}

\* check_listing keeps the codes it knows; the graph flags when any is left.
ListingOutcome(reply) ==
    IF reply = Malformed THEN Blocked
    ELSE LET told  == Listed(reply)
             codes == {told[k] : k \in DOMAIN told} \cap ReasonCodes
         IN  [status |-> IF codes = {} THEN "clean" ELSE "flagged", codes |-> codes]

CheckListing(reply) ==
    /\ Run([agent |-> "listing_quality", reply |-> reply], ListingOutcome(reply))
    /\ UNCHANGED seen

-----------------------------------------------------------------------------
(* Vehicle intake. *)

\* extract_vehicle_brief: "chassis" and "km" are what could be read.
VehicleOutcome(reply, comparables) ==
    IF reply = Malformed THEN Blocked
    ELSE IF reply = {} THEN [status |-> "incomplete"]
    ELSE [status |-> "brief", read |-> reply, band |-> comparables > 0]

IntakeVehicle(reply, comparables) ==
    /\ Run([agent |-> "vehicle_intake", reply |-> reply, comparables |-> comparables],
           VehicleOutcome(reply, comparables))
    /\ UNCHANGED seen

-----------------------------------------------------------------------------
(* Invoices. *)

Abs(n) == IF n < 0 THEN -n ELSE n

\* _amount_mismatches: more than 1 %, and for an order of nothing, anything.
AmountMismatches(amount, order) ==
    IF OrderAmount[order] = 0 THEN amount # 0
    ELSE Abs(amount - OrderAmount[order]) * 100 > OrderAmount[order]

\* validate_invoice: every reason, but an order that is not on record leaves
\* nothing to compare with.
Reasons(invoice, before) ==
    {r \in {"duplicate"} : invoice.order \in before}
    \cup IF invoice.order = NoOrder THEN {"not_found"}
         ELSE {r \in {"amount"} : AmountMismatches(invoice.amount, invoice.order)}
              \cup {r \in {"vendor"} : ~invoice.vendor_matches}

Invoice == [order : Order \cup {NoOrder}, amount : Amount, vendor_matches : BOOLEAN]

\* The graph of invoice_agent up to its interrupt: the order counts as seen
\* whatever the validation says.
IntakeInvoice(reply) ==
    /\ Run([agent |-> "invoice_agent", reply |-> reply, before |-> seen],
           IF reply = Malformed THEN Blocked
           ELSE [status |-> "interrupt", reasons |-> Reasons(reply, seen)])
    /\ seen' = IF reply = Malformed THEN seen ELSE seen \cup {reply.order}

-----------------------------------------------------------------------------
(* Insights. *)

\* check_numbers_grounded: within 1 % of a number of the data.
Near(n, d) == Abs(n - d) * 100 <= Abs(d)

Unmatched(rows, draft) == {n \in draft : ~\E d \in rows : Near(n, d)}

\* The graph of insights_publisher up to its interrupt.
InsightsOutcome(rows, draft) ==
    IF draft = Malformed \/ Unmatched(rows, draft) # {} THEN Blocked
    ELSE [status |-> "interrupt"]

DraftInsights(rows, draft) ==
    /\ Run([agent |-> "insights_publisher", rows |-> rows, reply |-> draft],
           InsightsOutcome(rows, draft))
    /\ UNCHANGED seen

-----------------------------------------------------------------------------
(* Dealers. *)

RequiredDocuments == {"authorization_certificate", "tax_registration"}
RequiredFields == {"company_name", "tax_no"}

\* A dossier: the documents that came, of the required kinds or not, whether the model's reply about them was
\* JSON and the fields it found, whether the application has a name, and whether
\* the two names, legal forms aside, are the same.
Dossier ==
    [documents : SUBSET (RequiredDocuments \cup {"other"}), understood : BOOLEAN,
     fields : SUBSET RequiredFields, applicant_named : BOOLEAN, same_name : BOOLEAN]

\* extract: without a document nothing is asked; with one the text is never
\* blank, as each document's kind is in it, and the model is asked.
FieldsFound(d) == IF d.documents = {} THEN {} ELSE d.fields

\* cross_check and missing_item_labels
Missing(d) == (RequiredDocuments \ d.documents) \cup (RequiredFields \ FieldsFound(d))

NameMismatch(d) ==
    /\ "company_name" \in FieldsFound(d)
    /\ d.applicant_named
    /\ ~d.same_name

\* route_after_crosscheck: a mismatch goes before what is missing.
DealerOutcome(d) ==
    IF d.documents # {} /\ ~d.understood THEN Blocked
    ELSE IF NameMismatch(d) THEN [status |-> "manual_review"]
    ELSE IF Missing(d) # {} THEN [status |-> "interrupt", asks |-> Missing(d)]
    ELSE [status |-> "ready_for_sales"]

OnboardDealer(d) ==
    /\ Run([agent |-> "dealer_onboarding", dossier |-> d], DealerOutcome(d))
    /\ UNCHANGED seen

-----------------------------------------------------------------------------
(* Applicants. *)

CvFields == {"full_name", "email", "phone", "education", "experience", "skills"}

\* extract_cv_profile and score_role_match: six fields are read, whatever else
\* the model returned, and none of the six may be absent or of a wrong shape.
CvOutcome(keys, matched) ==
    IF ~(CvFields \subseteq keys) THEN Blocked
    ELSE [status |-> "interrupt", profile |-> keys \cap CvFields,
          matched |-> matched, missing |-> Criterion \ matched]

ScreenCv(keys, matched) ==
    /\ Run([agent |-> "hr_agent", reply |-> keys], CvOutcome(keys, matched))
    /\ UNCHANGED seen

-----------------------------------------------------------------------------

Init ==
    /\ seen = {}
    /\ given = NoRun
    /\ outcome = Blocked

\* The run's answer is out; the next invoice is of the same batch or starts one
\* of its own, as every run of the router does.
Answered ==
    /\ given # NoRun
    /\ given' = NoRun
    /\ outcome' = Blocked
    /\ seen' \in {seen, {}}

\* A router runs its graph once per request, a batch takes one invoice after
\* the other.
Begin ==
    \/ \E n \in Excerpts, reply \in Replies(Entry \cup {Malformed}) :
          ReviewContract(n, reply)
    \/ \E reply \in Replies({"price_anomaly", "prohibited_content", "invented"}) :
          CheckListing(reply)
    \/ \E reply \in (SUBSET {"chassis", "km"}) \cup {Malformed}, n \in 0..1 :
          IntakeVehicle(reply, n)
    \/ \E reply \in Invoice \cup {Malformed} : IntakeInvoice(reply)
    \/ \E rows \in SUBSET Figure, draft \in (SUBSET Figure) \cup {Malformed} :
          DraftInsights(rows, draft)
    \/ \E d \in Dossier : OnboardDealer(d)
    \/ \E keys \in {CvFields, CvFields \cup {"gender"}, CvFields \ {"phone"}},
          matched \in SUBSET Criterion : ScreenCv(keys, matched)

Next ==
    \/ given = NoRun /\ Begin
    \/ Answered

Spec == Init /\ [][Next]_vars

-----------------------------------------------------------------------------
(* Properties. *)

\* A contract review that completes had excerpts to compare with, and every
\* clause the model called a deviation is in it once: as a finding that names
\* an excerpt which was shown and quotes the contract, or among the uncited.
\* Two things the code lets pass are let pass here: an entry that is not an
\* object is left out without a word, and an object without the key "findings"
\* completes with nothing found (SilenceIsNotClean).
LegalAccountsForAll ==
    given.agent = "legal_review" /\ outcome.status = "completed" =>
        /\ given.excerpts > 0
        /\ given.reply # Malformed
        /\ given.reply = Keyless => outcome.findings \cup outcome.uncited = {}
        /\ given.reply # Keyless =>
              outcome.findings \cup outcome.uncited =
                  {k \in DOMAIN given.reply :
                      /\ given.reply[k] # Malformed
                      /\ given.reply[k].clause
                      /\ ~given.reply[k].standard}
        /\ outcome.findings \cap outcome.uncited = {}
        /\ \A k \in outcome.findings :
              LET f == given.reply[k]
              IN  f.position \in 1..given.excerpts /\ f.quoted /\ f.rated

\* A listing is clean only if the model was understood and named no problem in
\* the vocabulary, or answered with an object without "flags", which the code
\* reads as no flags; a flag never carries a code of its own invention.
ListingIsJudged ==
    given.agent = "listing_quality" =>
        /\ outcome.status = "clean" /\ given.reply # Keyless =>
              given.reply # Malformed /\ \A k \in DOMAIN given.reply : given.reply[k] \notin ReasonCodes
        /\ outcome.status = "flagged" =>
              outcome.codes # {} /\ outcome.codes \subseteq ReasonCodes

\* No price band without an identified vehicle and something to compare it to.
BandHasGrounds ==
    given.agent = "vehicle_intake" /\ outcome.status = "brief" =>
        given.reply # {} /\ (outcome.band => given.comparables > 0)

\* An invoice put to an approver as clean is for an order on record that the
\* batch has not met, by its vendor, within 1 % of its amount; and every other
\* one shows each reason there is to doubt it.
InvoiceShowsItsDoubts ==
    given.agent = "invoice_agent" /\ outcome.status = "interrupt" =>
        LET i == given.reply
            close == /\ i.order # NoOrder
                     /\ 100 * i.amount <= 101 * OrderAmount[i.order]
                     /\ 100 * i.amount >= 99 * OrderAmount[i.order]
        IN  /\ "duplicate" \in outcome.reasons <=> i.order \in given.before
            /\ i.order = NoOrder => "not_found" \in outcome.reasons
            /\ i.order # NoOrder => ("amount" \in outcome.reasons <=> ~close)
            /\ i.order # NoOrder => ("vendor" \in outcome.reasons <=> ~i.vendor_matches)

\* No human is shown a draft with a number the query did not return.
DraftIsGrounded ==
    given.agent = "insights_publisher" /\ outcome.status = "interrupt" =>
        \A n \in given.reply : \E d \in given.rows : Near(n, d)

\* A dealer reaches sales with every document and field and no conflict of
\* names; a mail asks for just what is missing; two names that differ are never
\* answered by a mail.
DealerIsCleared ==
    given.agent = "dealer_onboarding" =>
        LET d == given.dossier
            known(f) == d.documents # {} /\ d.understood /\ f \in d.fields
            lacking == {x \in RequiredDocuments : x \notin d.documents}
                       \cup {f \in RequiredFields : ~known(f)}
            conflict == known("company_name") /\ d.applicant_named /\ ~d.same_name
        IN  /\ outcome.status = "ready_for_sales" => lacking = {} /\ ~conflict
            /\ outcome.status = "interrupt" => outcome.asks = lacking /\ lacking # {}
            /\ conflict => outcome.status = "manual_review"
            /\ outcome.status = "manual_review" => conflict

\* Nothing but the six fields of a profile reaches the approver, and a profile
\* that lacks one does not.
ProfileIsBounded ==
    given.agent = "hr_agent" /\ outcome.status = "interrupt" =>
        /\ outcome.profile = CvFields
        /\ outcome.matched \cap outcome.missing = {}

\* What graph.py of legal_review (15-18) says it guards against: a review that
\* could not be made, read as a contract without findings.  A reply that carries
\* no verdict does not end a review as completed.
SilenceIsNotClean ==
    given.agent = "legal_review" /\ outcome.status = "completed" =>
        given.reply # Keyless

\* Whatever a model replies, what a run ends with says no more than the run was
\* given and leaves out nothing that speaks against it, as far as each agent
\* reads the reply at all: the exceptions are those of the first two parts.
NothingIsGlossedOver ==
    /\ LegalAccountsForAll
    /\ ListingIsJudged
    /\ BandHasGrounds
    /\ InvoiceShowsItsDoubts
    /\ DraftIsGrounded
    /\ DealerIsCleared
    /\ ProfileIsBounded
=============================================================================
