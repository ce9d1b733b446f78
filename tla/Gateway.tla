------------------------------ MODULE Gateway ------------------------------
(***************************************************************************)
(* The LLM gateway client: every model call of the platform, made by       *)
(* overlapping tasks (chat streams, agent graphs, the ingest worker).      *)
(*                                                                         *)
(* A call picks a model cleared for its content, reads the spend of each   *)
(* budget scope it belongs to, one database session after the other, goes  *)
(* to the proxy, and appends its cost to the ledger when the answer is     *)
(* complete.  Nothing is reserved in between: calls that read the ledger   *)
(* before any of them has written to it all pass.                          *)
(*                                                                         *)
(* Money is counted in whole units.  Budget rows, the registry and the     *)
(* proxy's fallback chains do not change during a behaviour.               *)
(***************************************************************************)
EXTENDS Naturals, Sequences, FiniteSets

CONSTANTS
    Caller,     \* the tasks that make calls, each one call at a time
    Scope,      \* what a budget is on: global, a department, an agent, a user
    Path,       \* Path[c]: the scopes of c's calls, in the order they are read
    Budget,     \* the rows of `budgets`: [scope, period, limit]
    MaxCost,    \* the most one call costs
    Request,    \* what is asked for: [role, sensitivity, redacted, streamed]
    NoRequest,
    Model,      \* the active rows of the registry
    NoModel,
    RoleOf,     \* RoleOf[m]: reasoning, utility or embeddings
    Clearance,  \* Clearance[m]: the most sensitive content m may see
    Local,      \* the models that run on the premises
    Chain       \* Chain[m]: where the proxy falls back to when m fails

Sensitivity == 0..3
PUBLIC == 0
INTERNAL == 1
CONFIDENTIAL == 2
PII == 3

Period == {"daily", "monthly"}
Role == {"reasoning", "utility", "embeddings"}

ASSUME ScopeAssumption ==
    /\ IsFiniteSet(Caller)
    /\ Path \in [Caller -> Seq(Scope)]
    /\ Budget \subseteq [scope : Scope, period : Period, limit : Nat \ {0}]
    /\ MaxCost \in Nat

ASSUME RequestAssumption ==
    /\ Request \subseteq [role : Role, sensitivity : Sensitivity,
                          redacted : BOOLEAN, streamed : BOOLEAN]
    /\ NoRequest \notin Request

\* Registry rows cleared for pii are local (build_model_row refuses others) and
\* a fallback is cleared for at least what the model it stands in for is.
ASSUME RegistryAssumption ==
    /\ NoModel \notin Model
    /\ RoleOf \in [Model -> Role]
    /\ Clearance \in [Model -> Sensitivity]
    /\ Chain \in [Model -> SUBSET Model]
    /\ \A m \in Model : Clearance[m] = PII => m \in Local
    /\ \A m \in Model : \A n \in Chain[m] : Clearance[n] >= Clearance[m]

VARIABLES
    spent,      \* spent[p][s]: what the ledger holds for s since p began
    pc,         \* pc[c]: how far the call of c has come
    req,        \* req[c]: what c asked for
    model,      \* model[c]: the model the client selected
    level,      \* level[c]: the next of Path[c] whose budget is read
    stop,       \* stop[c]: a scope read so far was at its hard limit
    served      \* served[c]: the model that answered

callVars == <<pc, req, model, level, stop, served>>
vars == <<spent, callVars>>

Init ==
    /\ spent = [p \in Period |-> [s \in Scope |-> 0]]
    /\ pc = [c \in Caller |-> "idle"]
    /\ req = [c \in Caller |-> NoRequest]
    /\ model = [c \in Caller |-> NoModel]
    /\ level = [c \in Caller |-> 1]
    /\ stop = [c \in Caller |-> FALSE]
    /\ served = [c \in Caller |-> NoModel]

-----------------------------------------------------------------------------
(* Selecting a model. *)

\* Mutant of Effective: redacted content counts as internal, pii too.
DowngradeAll(r) == IF r.redacted THEN INTERNAL ELSE r.sensitivity

\* Redacted confidential content counts as internal; pii is never downgraded.
Effective(r) ==
    IF r.redacted /\ r.sensitivity = CONFIDENTIAL
    THEN INTERNAL ELSE r.sensitivity

Candidates(r) ==
    {m \in Model : RoleOf[m] = r.role /\ Clearance[m] >= Effective(r)}

\* The least cleared of them.  The registry is read in no particular order, so
\* any of several is chosen.
Selectable(r) ==
    {m \in Candidates(r) :
        \A n \in Candidates(r) : Clearance[m] <= Clearance[n]}

\* A request no model is cleared for is refused here and changes nothing.
Issue(c, r) ==
    /\ pc[c] = "idle"
    /\ \E m \in Selectable(r) : model' = [model EXCEPT ![c] = m]
    /\ pc' = [pc EXCEPT ![c] = "budget"]
    /\ req' = [req EXCEPT ![c] = r]
    /\ UNCHANGED <<spent, level, stop, served>>

-----------------------------------------------------------------------------
(* The budget pre-check. *)

RowsOf(s) == {b \in Budget : b.scope = s}

\* Mutant of AtLimit: the limit itself may still be spent.
PastLimit(b) == spent[b.period][b.scope] > b.limit

\* The spend since the row's period began has reached its limit.
AtLimit(b) == spent[b.period][b.scope] >= b.limit

\* A scope may have a row per period; the query takes one of them (LIMIT 1).
\* All scopes are read, also after one that was at its limit.
ReadBudget(c) ==
    /\ pc[c] = "budget"
    /\ level[c] <= Len(Path[c])
    /\ LET rows == RowsOf(Path[c][level[c]]) IN
        \/ /\ \E b \in rows : AtLimit(b)
           /\ stop' = [stop EXCEPT ![c] = TRUE]
        \/ /\ rows = {} \/ \E b \in rows : ~AtLimit(b)
           /\ UNCHANGED stop
    /\ level' = [level EXCEPT ![c] = @ + 1]
    /\ UNCHANGED <<spent, pc, req, model, served>>

\* The call is over and its task may make another.
End(c) ==
    /\ pc' = [pc EXCEPT ![c] = "idle"]
    /\ req' = [req EXCEPT ![c] = NoRequest]
    /\ model' = [model EXCEPT ![c] = NoModel]
    /\ level' = [level EXCEPT ![c] = 1]
    /\ stop' = [stop EXCEPT ![c] = FALSE]
    /\ served' = [served EXCEPT ![c] = NoModel]

Checked(c) == pc[c] = "budget" /\ level[c] > Len(Path[c])

\* A session fails while a budget is read, or the task is cancelled.
CheckFails(c) ==
    /\ pc[c] = "budget"
    /\ End(c)
    /\ UNCHANGED spent

\* BudgetExceeded: nothing is sent.
HardStop(c) ==
    /\ Checked(c)
    /\ stop[c]
    /\ End(c)
    /\ UNCHANGED spent

Send(c) ==
    /\ Checked(c)
    /\ ~stop[c]
    /\ pc' = [pc EXCEPT ![c] = "sent"]
    /\ UNCHANGED <<spent, req, model, level, stop, served>>

-----------------------------------------------------------------------------
(* The call itself, and its cost. *)

\* The proxy answers with the model asked for or one it fell back to.
Serve(c) ==
    /\ pc[c] = "sent"
    /\ \E m \in {model[c]} \union Chain[model[c]] :
        served' = [served EXCEPT ![c] = m]
    /\ pc' = [pc EXCEPT ![c] =
                IF req[c].streamed THEN "streaming" ELSE "answered"]
    /\ UNCHANGED <<spent, req, model, level, stop>>

\* The chain is exhausted or the client's timeout fires: GatewayError.
GatewayFails(c) ==
    /\ pc[c] = "sent"
    /\ End(c)
    /\ UNCHANGED spent

EndStream(c) ==
    /\ pc[c] = "streaming"
    /\ pc' = [pc EXCEPT ![c] = "answered"]
    /\ UNCHANGED <<spent, req, model, level, stop, served>>

\* Mutant of AbandonStream: the closed generator goes on to record, without
\* what it would record.
RecordAnyway(c) ==
    /\ pc[c] = "streaming"
    /\ pc' = [pc EXCEPT ![c] = "answered"]
    /\ model' = [model EXCEPT ![c] = NoModel]
    /\ UNCHANGED <<spent, req, level, stop, served>>

\* The stream breaks, or its reader goes away and the generator is closed at
\* its yield: the lines that price the call and record it are never reached.
AbandonStream(c) ==
    /\ pc[c] = "streaming"
    /\ End(c)
    /\ UNCHANGED spent

\* Price and record.  A response without a usage block costs nothing.
Record(c) ==
    /\ pc[c] = "answered"
    /\ \E cost \in 0..MaxCost :
        spent' = [p \in Period |->
            [s \in Scope |-> IF \E i \in DOMAIN Path[c] : Path[c][i] = s
                             THEN spent[p][s] + cost ELSE spent[p][s]]]
    /\ End(c)

RecordFails(c) ==
    /\ pc[c] = "answered"
    /\ End(c)
    /\ UNCHANGED spent

-----------------------------------------------------------------------------
(* Periods begin at midnight and on the first of the month, UTC. *)

NewDay ==
    /\ spent' = [spent EXCEPT !["daily"] = [s \in Scope |-> 0]]
    /\ UNCHANGED callVars

NewMonth ==
    /\ spent' = [p \in Period |-> [s \in Scope |-> 0]]
    /\ UNCHANGED callVars

Step(c) ==
    \/ \E r \in Request : Issue(c, r)
    \/ ReadBudget(c) \/ CheckFails(c) \/ HardStop(c) \/ Send(c)
    \/ Serve(c) \/ GatewayFails(c)
    \/ EndStream(c) \/ AbandonStream(c)
    \/ Record(c) \/ RecordFails(c)

Next ==
    \/ \E c \in Caller : Step(c)
    \/ NewDay
    \/ NewMonth

Spec == Init /\ [][Next]_vars

-----------------------------------------------------------------------------
(* Properties. *)

\* The types of the state; a model is chosen for as long as a call lasts.
TypeOK ==
    /\ spent \in [Period -> [Scope -> Nat]]
    /\ pc \in [Caller -> {"idle", "budget", "sent", "streaming", "answered"}]
    /\ req \in [Caller -> Request \union {NoRequest}]
    /\ model \in [Caller -> Model \union {NoModel}]
    /\ level \in [Caller -> Nat \ {0}]
    /\ stop \in [Caller -> BOOLEAN]
    /\ served \in [Caller -> Model \union {NoModel}]
    /\ \A c \in Caller : pc[c] # "idle" => model[c] # NoModel

\* May m see what r carries?  Only redacted confidential content may go below
\* its own classification, and pii stays on the premises, redacted or not.
Cleared(m, r) ==
    /\ \/ Clearance[m] >= r.sensitivity
       \/ r.redacted /\ r.sensitivity = CONFIDENTIAL /\ Clearance[m] >= INTERNAL
    /\ r.sensitivity = PII => m \in Local

\* Whatever the proxy fell back to, the model that answers a call is cleared
\* for its content: select_model together with the chains of config.yaml.
ServedIsCleared ==
    \A c \in Caller : served[c] # NoModel => Cleared(served[c], req[c])

CallersOf(s) == {c \in Caller : \E i \in DOMAIN Path[c] : Path[c][i] = s}

\* The callers that found s below its limit and have not come to an end.
Committed(s) ==
    {c \in Caller :
        /\ pc[c] # "idle" /\ ~stop[c]
        /\ \E i \in DOMAIN Path[c] : i < level[c] /\ Path[c][i] = s}

\* The only row of its scope.
Sole(b) == RowsOf(b.scope) = {b}

\* The hard stop leaks, but not without bound: however calls overlap, a scope
\* with one budget row is overrun by less than one call of each of its
\* callers (check_budget reads the ledger, record writes it, nothing reserves).
OverrunIsBounded ==
    \A b \in Budget :
        Sole(b) => spent[b.period][b.scope]
                     < b.limit + MaxCost * Cardinality(CallersOf(b.scope))

\* No call is sent while a scope it belongs to is at a hard limit, as the head
\* of budget.py says ("a hard stop at any level blocks the call").  Stated for
\* one caller, so that no other call spends between the check and the call.
HardStopBlocks ==
    \A c \in Caller : pc[c] = "sent" =>
        \A b \in Budget : c \in CallersOf(b.scope) => ~AtLimit(b)
=============================================================================
