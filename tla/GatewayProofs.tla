---------------------------- MODULE GatewayProofs ----------------------------
(***************************************************************************)
(* Proofs about Gateway, for any callers, budgets, registry and chains.    *)
(*                                                                         *)
(* OverrunIsBounded is not inductive: a scope just below its bound with    *)
(* calls still out would pass it.  Reserved charges each committed call    *)
(* with the most it may cost, as if the pre-check had set it aside.        *)
(***************************************************************************)
EXTENDS Gateway, FiniteSetTheorems, TLAPS

\* Every step of every caller, and of the calendar, preserves the types.
LEMMA TypeStep == TypeOK /\ [Next]_vars => TypeOK'
<1> SUFFICES ASSUME TypeOK, [Next]_vars PROVE TypeOK'
  OBVIOUS
<1> USE DEF TypeOK, End
<1>1. ASSUME NEW c \in Caller, Step(c) PROVE TypeOK'
  <2>1. CASE \E r \in Request : Issue(c, r)
    BY <2>1, RegistryAssumption DEF Issue, Selectable, Candidates
  <2>2. CASE ReadBudget(c)
    <3>1. stop' \in [Caller -> BOOLEAN]
      BY <2>2 DEF ReadBudget
    <3>2. level' \in [Caller -> Nat \ {0}]
      BY <2>2 DEF ReadBudget
    <3> QED
      BY <2>2, <3>1, <3>2 DEF ReadBudget
  <2>3. CASE HardStop(c)
    BY <2>3 DEF HardStop
  <2>4. CASE Send(c)
    BY <2>4 DEF Send, Checked
  <2>5. CASE Serve(c)
    <3>1. PICK m \in {model[c]} \union Chain[model[c]] :
            served' = [served EXCEPT ![c] = m]
      BY <2>5 DEF Serve
    <3>2. m \in Model \union {NoModel}
      BY <2>5, RegistryAssumption DEF Serve
    <3> QED
      BY <2>5, <3>1, <3>2 DEF Serve
  <2>6. CASE GatewayFails(c)
    BY <2>6 DEF GatewayFails
  <2>7. CASE EndStream(c)
    BY <2>7 DEF EndStream
  <2>8. CASE AbandonStream(c)
    BY <2>8 DEF AbandonStream
  <2>9. CASE Record(c)
    BY <2>9, ScopeAssumption DEF Record
  <2>10. CASE RecordFails(c)
    BY <2>10 DEF RecordFails
  <2>11. CASE CheckFails(c)
    BY <2>11 DEF CheckFails
  <2> QED
    BY <1>1, <2>1, <2>2, <2>3, <2>4, <2>5, <2>6, <2>7, <2>8, <2>9, <2>10, <2>11
    DEF Step
<1>2. CASE NewDay
  BY <1>2 DEF NewDay, callVars
<1>3. CASE NewMonth
  BY <1>3 DEF NewMonth, callVars
<1>4. CASE UNCHANGED vars
  BY <1>4 DEF vars, callVars
<1> QED
  BY <1>1, <1>2, <1>3, <1>4 DEF Next

\* The gateway's state keeps its types, whatever the callers ask for.
THEOREM TypeCorrect == Spec => []TypeOK
<1>1. Init => TypeOK
  BY DEF Init, TypeOK, Period
<1> QED
  BY <1>1, TypeStep, PTL DEF Spec

-----------------------------------------------------------------------------
(* Sensitivity. *)

\* A call under way has a model cleared for it, and so has one that answered.
ClearedInv ==
    /\ ServedIsCleared
    /\ \A c \in Caller : pc[c] # "idle" =>
        req[c] \in Request /\ model[c] \in Model /\ Cleared(model[c], req[c])
    /\ \A c \in Caller :
        pc[c] \in {"idle", "budget", "sent"} => served[c] = NoModel

\* What select_model picks is cleared for the request.
LEMMA SelectedIsCleared ==
    ASSUME NEW r \in Request, NEW m \in Selectable(r)
    PROVE  m \in Model /\ Cleared(m, r)
<1>1. m \in Model /\ Clearance[m] \in 0..3 /\ Clearance[m] >= Effective(r)
  BY RegistryAssumption DEF Selectable, Candidates, Sensitivity
<1>2. r.sensitivity \in 0..3
  BY RequestAssumption DEF Sensitivity
<1>3. CASE r.redacted /\ r.sensitivity = CONFIDENTIAL
  BY <1>1, <1>3 DEF Cleared, Effective, CONFIDENTIAL, INTERNAL, PII
<1>4. CASE ~(r.redacted /\ r.sensitivity = CONFIDENTIAL)
  <2>1. Clearance[m] >= r.sensitivity
    BY <1>1, <1>4 DEF Effective
  <2>2. r.sensitivity = PII => Clearance[m] = PII
    BY <1>1, <2>1 DEF PII
  <2> QED
    BY <1>1, <2>1, <2>2, RegistryAssumption DEF Cleared
<1> QED
  BY <1>3, <1>4

\* A chain that never steps down in clearance keeps a request cleared.
LEMMA FallbackIsCleared ==
    ASSUME NEW r \in Request, NEW m \in Model, Cleared(m, r), NEW n \in Chain[m]
    PROVE  n \in Model /\ Cleared(n, r)
<1>1. /\ n \in Model /\ Clearance[n] >= Clearance[m]
      /\ Clearance[n] \in 0..3 /\ Clearance[m] \in 0..3
  BY RegistryAssumption DEF Sensitivity
<1>2. r.sensitivity \in 0..3
  BY RequestAssumption DEF Sensitivity
<1>3. r.sensitivity = PII => n \in Local
  <2>1. r.sensitivity = PII => Clearance[n] = PII
    BY <1>1 DEF Cleared, PII, CONFIDENTIAL
  <2> QED
    BY <1>1, <2>1, RegistryAssumption
<1> QED
  BY <1>1, <1>2, <1>3 DEF Cleared, INTERNAL

LEMMA ClearedStep == TypeOK /\ ClearedInv /\ [Next]_vars => ClearedInv'
<1> SUFFICES ASSUME TypeOK, ClearedInv, [Next]_vars PROVE ClearedInv'
  OBVIOUS
<1> USE DEF TypeOK, ClearedInv, ServedIsCleared
<1>1. ASSUME NEW c \in Caller, Step(c) PROVE ClearedInv'
  <2>1. ASSUME NEW r \in Request, Issue(c, r) PROVE ClearedInv'
    <3>1. PICK m \in Selectable(r) : model' = [model EXCEPT ![c] = m]
      BY <2>1 DEF Issue
    <3>2. m \in Model /\ Cleared(m, r)
      BY SelectedIsCleared
    <3> QED
      BY <2>1, <3>1, <3>2 DEF Issue, Cleared
  <2>2. CASE ReadBudget(c) \/ Send(c)
    BY <2>2 DEF ReadBudget, Send, Checked, Cleared
  <2>3. CASE End(c)
    BY <2>3 DEF End, Cleared
  <2>4. CASE Serve(c)
    <3>1. PICK m \in {model[c]} \union Chain[model[c]] :
            served' = [served EXCEPT ![c] = m]
      BY <2>4 DEF Serve
    <3>2. req[c] \in Request /\ model[c] \in Model /\ Cleared(model[c], req[c])
      BY <2>4 DEF Serve
    <3>3. m \in Model /\ Cleared(m, req[c])
      BY <3>2, FallbackIsCleared
    <3> QED
      BY <2>4, <3>1, <3>2, <3>3, RegistryAssumption DEF Serve, Cleared
  <2>5. CASE EndStream(c)
    BY <2>5 DEF EndStream, Cleared
  <2> QED
    BY <1>1, <2>1, <2>2, <2>3, <2>4, <2>5
    DEF Step, HardStop, GatewayFails, AbandonStream, CheckFails, Record,
         RecordFails
<1>2. CASE UNCHANGED callVars
  BY <1>2 DEF callVars, Cleared
<1> QED
  BY <1>1, <1>2 DEF Next, NewDay, NewMonth, vars

\* Whatever the registry and the fallback chains are, as long as only local
\* models are cleared for pii and no chain steps down in clearance, no content
\* reaches a model that is not cleared for it.
THEOREM ContentStaysCleared == Spec => []ServedIsCleared
<1>1. Init => ClearedInv
  BY DEF Init, ClearedInv, ServedIsCleared
<1>2. ClearedInv => ServedIsCleared
  BY DEF ClearedInv
<1> QED
  BY <1>1, <1>2, ClearedStep, TypeCorrect, PTL DEF Spec

-----------------------------------------------------------------------------
(* Budgets. *)

\* A call that was sent passed the check of all its scopes; one that is not
\* made yet has read none.
CheckedInv ==
    \A c \in Caller :
        /\ pc[c] \in {"sent", "streaming", "answered"} =>
            ~stop[c] /\ level[c] > Len(Path[c])
        /\ pc[c] = "idle" => level[c] = 1

Reserved ==
    \A b \in Budget : Sole(b) =>
        spent[b.period][b.scope] + MaxCost * Cardinality(Committed(b.scope))
            < b.limit + MaxCost * Cardinality(CallersOf(b.scope))

BudgetInv == CheckedInv /\ Reserved

LEMMA CheckedStep == TypeOK /\ CheckedInv /\ [Next]_vars => CheckedInv'
<1> SUFFICES ASSUME TypeOK, CheckedInv, [Next]_vars PROVE CheckedInv'
  OBVIOUS
<1> USE DEF TypeOK, CheckedInv
<1>1. ASSUME NEW c \in Caller, Step(c) PROVE CheckedInv'
  <2>1. CASE \E r \in Request : Issue(c, r)
    BY <2>1 DEF Issue
  <2>2. CASE ReadBudget(c)
    BY <2>2 DEF ReadBudget
  <2>3. CASE Send(c)
    BY <2>3 DEF Send, Checked
  <2>4. CASE Serve(c)
    BY <2>4 DEF Serve
  <2>5. CASE EndStream(c)
    BY <2>5 DEF EndStream
  <2>6. CASE End(c)
    BY <2>6 DEF End
  <2> QED
    BY <1>1, <2>1, <2>2, <2>3, <2>4, <2>5, <2>6
    DEF Step, HardStop, GatewayFails, AbandonStream, CheckFails, Record,
         RecordFails
<1>2. CASE UNCHANGED callVars
  BY <1>2 DEF callVars
<1> QED
  BY <1>1, <1>2 DEF Next, NewDay, NewMonth, vars

\* The committed callers of a scope are among its callers, and both can be
\* counted, before a step and after it.
LEMMA Counting ==
    ASSUME NEW s \in Scope
    PROVE  /\ IsFiniteSet(CallersOf(s)) /\ Cardinality(CallersOf(s)) \in Nat
           /\ IsFiniteSet(Committed(s)) /\ Cardinality(Committed(s)) \in Nat
           /\ IsFiniteSet(Committed(s)') /\ Cardinality(Committed(s)') \in Nat
           /\ Cardinality(Committed(s)) <= Cardinality(CallersOf(s))
           /\ Cardinality(Committed(s)') <= Cardinality(CallersOf(s))
<1>1. IsFiniteSet(CallersOf(s))
  <2>1. CallersOf(s) \subseteq Caller
    BY DEF CallersOf
  <2> QED
    BY <2>1, ScopeAssumption, FS_Subset
<1>2. /\ Committed(s) \subseteq CallersOf(s)
      /\ Committed(s)' \subseteq CallersOf(s)
  BY DEF Committed, CallersOf
<1> QED
  BY <1>1, <1>2, FS_Subset, FS_CardinalityType

\* The reservation of a scope survives a step that spends nothing and commits
\* nobody to it.
LEMMA NothingReserved ==
    ASSUME TypeOK, TypeOK', NEW b \in Budget,
           spent[b.period][b.scope] + MaxCost * Cardinality(Committed(b.scope))
             < b.limit + MaxCost * Cardinality(CallersOf(b.scope)),
           spent'[b.period][b.scope] <= spent[b.period][b.scope],
           Committed(b.scope)' \subseteq Committed(b.scope)
    PROVE  spent'[b.period][b.scope]
               + MaxCost * Cardinality(Committed(b.scope)')
             < b.limit + MaxCost * Cardinality(CallersOf(b.scope))
<1> DEFINE k == Cardinality(Committed(b.scope))
           l == Cardinality(Committed(b.scope)')
           n == Cardinality(CallersOf(b.scope))
<1>1. b.scope \in Scope /\ b.period \in Period /\ b.limit \in Nat
      /\ MaxCost \in Nat
  BY ScopeAssumption
<1>2. k \in Nat /\ l \in Nat /\ n \in Nat /\ l <= k
  BY <1>1, Counting, FS_Subset
<1>3. spent[b.period][b.scope] \in Nat /\ spent'[b.period][b.scope] \in Nat
  BY <1>1 DEF TypeOK
<1>4. MaxCost * l <= MaxCost * k
  <2> HIDE DEF k, l
  <2> QED
    BY <1>1, <1>2
<1>5. MaxCost * l \in Nat /\ MaxCost * k \in Nat /\ MaxCost * n \in Nat
  <2> HIDE DEF k, l, n
  <2> QED
    BY <1>1, <1>2
<1> QED
  BY <1>1, <1>3, <1>4, <1>5

\* Nobody joins the committed callers of a scope but by reading its budget.
LEMMA OnlyReadingCommits ==
    ASSUME TypeOK, CheckedInv, NEW s \in Scope, NEW c \in Caller, Step(c),
           ~ReadBudget(c)
    PROVE  Committed(s)' \subseteq Committed(s)
<1> USE DEF TypeOK, CheckedInv, Committed
<1>1. CASE \E r \in Request : Issue(c, r)
  <2>1. \A i \in DOMAIN Path[c] : ~(i < 1)
    BY ScopeAssumption
  <2> QED
    BY <1>1, <2>1 DEF Issue
<1>2. CASE Send(c)
  BY <1>2 DEF Send, Checked
<1>3. CASE Serve(c)
  BY <1>3 DEF Serve
<1>4. CASE EndStream(c)
  BY <1>4 DEF EndStream
<1>5. CASE End(c)
  BY <1>5 DEF End
<1> QED
  BY <1>1, <1>2, <1>3, <1>4, <1>5
  DEF Step, HardStop, GatewayFails, AbandonStream, CheckFails, Record,
         RecordFails

\* Reading a budget commits its caller only to a scope below its limit.
LEMMA ReadStep ==
    ASSUME TypeOK, TypeOK', Reserved, NEW c \in Caller, ReadBudget(c)
    PROVE  Reserved'
<1> SUFFICES ASSUME NEW b \in Budget, Sole(b)
             PROVE  spent'[b.period][b.scope]
                        + MaxCost * Cardinality(Committed(b.scope)')
                      < b.limit + MaxCost * Cardinality(CallersOf(b.scope))
  BY DEF Reserved, Sole, RowsOf, CallersOf
<1> DEFINE l == Cardinality(Committed(b.scope)')
           n == Cardinality(CallersOf(b.scope))
<1>1. b.scope \in Scope /\ b.period \in Period /\ b.limit \in Nat
      /\ MaxCost \in Nat
  BY ScopeAssumption
<1>2. spent' = spent
  BY DEF ReadBudget
<1>3. CASE Committed(b.scope)' \subseteq Committed(b.scope)
  <2>1. spent'[b.period][b.scope] <= spent[b.period][b.scope]
    BY <1>1, <1>2 DEF TypeOK
  <2> QED
    BY <1>3, <2>1, NothingReserved DEF Reserved
<1>4. CASE ~(Committed(b.scope)' \subseteq Committed(b.scope))
  <2>1. Path[c][level[c]] = b.scope /\ ~stop'[c]
    <3>1. PICK d \in Committed(b.scope)' : d \notin Committed(b.scope)
      BY <1>4
    <3>2. PICK i \in DOMAIN Path[d] : i < level'[d] /\ Path[d][i] = b.scope
      BY <3>1 DEF Committed
    <3>3. d \in Caller /\ pc[d] # "idle" /\ ~stop[d] /\ ~stop'[d]
      BY <3>1 DEF ReadBudget, Committed, TypeOK
    <3>4. ~(i < level[d])
      BY <3>1, <3>2, <3>3 DEF Committed
    <3>5. d = c /\ i = level[c]
      BY <3>2, <3>3, <3>4, ScopeAssumption DEF ReadBudget, TypeOK
    <3> QED
      BY <3>2, <3>3, <3>5
  <2>2. ~AtLimit(b)
    <3>1. RowsOf(Path[c][level[c]]) = {b}
      BY <2>1 DEF Sole
    <3> QED
      BY <2>1, <3>1 DEF ReadBudget, TypeOK
  <2>3. spent[b.period][b.scope] \in Nat /\ spent[b.period][b.scope] < b.limit
    BY <1>1, <2>2 DEF AtLimit, TypeOK
  <2>4. l \in Nat /\ n \in Nat /\ l <= n
    BY <1>1, Counting
  <2>5. MaxCost * l <= MaxCost * n /\ MaxCost * l \in Nat /\ MaxCost * n \in Nat
    <3> HIDE DEF l, n
    <3> QED
      BY <1>1, <2>4
  <2> QED
    BY <1>1, <1>2, <2>3, <2>5
<1> QED
  BY <1>3, <1>4

\* A recorded cost was reserved when its caller passed the check.
LEMMA RecordStep ==
    ASSUME TypeOK, TypeOK', CheckedInv, Reserved, NEW c \in Caller, Record(c)
    PROVE  Reserved'
<1> SUFFICES ASSUME NEW b \in Budget, Sole(b)
             PROVE  spent'[b.period][b.scope]
                        + MaxCost * Cardinality(Committed(b.scope)')
                      < b.limit + MaxCost * Cardinality(CallersOf(b.scope))
  BY DEF Reserved, Sole, RowsOf, CallersOf
<1> DEFINE k == Cardinality(Committed(b.scope))
           l == Cardinality(Committed(b.scope)')
           n == Cardinality(CallersOf(b.scope))
<1>1. b.scope \in Scope /\ b.period \in Period /\ b.limit \in Nat
      /\ MaxCost \in Nat
  BY ScopeAssumption
<1>2. Committed(b.scope)' \subseteq Committed(b.scope) \ {c}
  BY DEF Record, End, Committed, TypeOK
<1>3. PICK cost \in 0..MaxCost :
        spent' = [p \in Period |->
            [s \in Scope |-> IF \E i \in DOMAIN Path[c] : Path[c][i] = s
                             THEN spent[p][s] + cost ELSE spent[p][s]]]
  BY DEF Record
<1>4. CASE c \notin CallersOf(b.scope)
  <2>1. spent'[b.period][b.scope] <= spent[b.period][b.scope]
    BY <1>1, <1>3, <1>4 DEF CallersOf, TypeOK
  <2> QED
    BY <1>2, <2>1, NothingReserved DEF Reserved
<1>5. CASE c \in CallersOf(b.scope)
  <2>1. c \in Committed(b.scope)
    <3>1. PICK i \in DOMAIN Path[c] : Path[c][i] = b.scope
      BY <1>5 DEF CallersOf
    <3>2. i < level[c]
      BY <3>1, ScopeAssumption DEF CheckedInv, Record, TypeOK
    <3> QED
      BY <3>1, <3>2 DEF Committed, CheckedInv, Record
  <2>2. k \in Nat /\ l \in Nat /\ n \in Nat /\ l <= k - 1
    <3>1. IsFiniteSet(Committed(b.scope) \ {c})
          /\ Cardinality(Committed(b.scope) \ {c}) = k - 1
      BY <1>1, <2>1, Counting, FS_RemoveElement
    <3> QED
      BY <1>1, <1>2, <3>1, Counting, FS_Subset
  <2>3. MaxCost * l + MaxCost <= MaxCost * k
        /\ MaxCost * l \in Nat /\ MaxCost * k \in Nat /\ MaxCost * n \in Nat
    <3> HIDE DEF k, l, n
    <3> QED
      BY <1>1, <2>2
  <2>4. spent[b.period][b.scope] \in Nat
        /\ spent'[b.period][b.scope] = spent[b.period][b.scope] + cost
    BY <1>1, <1>3, <1>5 DEF CallersOf, TypeOK
  <2>5. spent[b.period][b.scope] + MaxCost * k < b.limit + MaxCost * n
    BY DEF Reserved
  <2> QED
    BY <1>1, <1>3, <2>3, <2>4, <2>5
<1> QED
  BY <1>4, <1>5

\* What the first of a month or midnight takes off the ledger's sums, and what
\* leaves the calls alone, keeps every reservation.
LEMMA CalendarStep ==
    ASSUME TypeOK, TypeOK', Reserved, UNCHANGED callVars,
           \A p \in Period, s \in Scope : spent'[p][s] <= spent[p][s]
    PROVE  Reserved'
<1> SUFFICES ASSUME NEW b \in Budget, Sole(b)
             PROVE  spent'[b.period][b.scope]
                        + MaxCost * Cardinality(Committed(b.scope)')
                      < b.limit + MaxCost * Cardinality(CallersOf(b.scope))
  BY DEF Reserved, Sole, RowsOf, CallersOf
<1>1. spent'[b.period][b.scope] <= spent[b.period][b.scope]
  BY ScopeAssumption
<1>2. Committed(b.scope)' \subseteq Committed(b.scope)
  BY DEF callVars, Committed
<1> QED
  BY <1>1, <1>2, NothingReserved DEF Reserved

LEMMA BudgetStep ==
    TypeOK /\ TypeOK' /\ BudgetInv /\ [Next]_vars => BudgetInv'
<1> SUFFICES ASSUME TypeOK, TypeOK', CheckedInv, Reserved, [Next]_vars
             PROVE  Reserved'
  BY CheckedStep DEF BudgetInv
<1>1. ASSUME NEW c \in Caller, Step(c), ~ReadBudget(c), UNCHANGED spent
      PROVE  Reserved'
  <2> SUFFICES ASSUME NEW b \in Budget, Sole(b)
               PROVE  spent'[b.period][b.scope]
                          + MaxCost * Cardinality(Committed(b.scope)')
                        < b.limit + MaxCost * Cardinality(CallersOf(b.scope))
    BY DEF Reserved, Sole, RowsOf, CallersOf
  <2>1. b.scope \in Scope /\ b.period \in Period
    BY ScopeAssumption
  <2>2. Committed(b.scope)' \subseteq Committed(b.scope)
    BY <1>1, <2>1, OnlyReadingCommits
  <2>3. spent'[b.period][b.scope] <= spent[b.period][b.scope]
    BY <1>1, <2>1 DEF TypeOK
  <2> QED
    BY <2>2, <2>3, NothingReserved DEF Reserved
<1>2. ASSUME NEW c \in Caller, Step(c) PROVE Reserved'
  <2>1. CASE ReadBudget(c)
    BY <2>1, ReadStep
  <2>2. CASE Record(c)
    BY <2>2, RecordStep
  <2>3. CASE ~ReadBudget(c) /\ ~Record(c)
    <3>1. UNCHANGED spent
      BY <1>2, <2>3 DEF Step, Issue, HardStop, Send, Serve, GatewayFails,
         EndStream, AbandonStream, CheckFails, RecordFails
    <3> QED
      BY <1>1, <1>2, <2>3, <3>1
  <2> QED
    BY <2>1, <2>2, <2>3
<1>3. ASSUME UNCHANGED callVars,
             \A p \in Period, s \in Scope : spent'[p][s] <= spent[p][s]
      PROVE  Reserved'
  BY <1>3, CalendarStep
<1>4. CASE NewDay
  BY <1>3, <1>4 DEF NewDay, TypeOK, Period
<1>5. CASE NewMonth
  BY <1>3, <1>5 DEF NewMonth, TypeOK, Period
<1>6. CASE UNCHANGED vars
  BY <1>3, <1>6 DEF vars, TypeOK
<1> QED
  BY <1>2, <1>4, <1>5, <1>6 DEF Next

\* However many callers a scope has and however their calls overlap, a scope
\* with one budget row is overrun by less than one call of each of them.
THEOREM OverrunBound == Spec => []OverrunIsBounded
<1>1. Init => BudgetInv
  <2> SUFFICES ASSUME Init, NEW b \in Budget
               PROVE  spent[b.period][b.scope]
                          + MaxCost * Cardinality(Committed(b.scope))
                        < b.limit + MaxCost * Cardinality(CallersOf(b.scope))
    BY DEF Init, BudgetInv, CheckedInv, Reserved
  <2>1. b.scope \in Scope /\ b.period \in Period /\ b.limit \in Nat \ {0}
        /\ MaxCost \in Nat
    BY ScopeAssumption
  <2>2. Cardinality(Committed(b.scope)) = 0
    BY FS_EmptySet DEF Init, Committed
  <2>3. MaxCost * Cardinality(CallersOf(b.scope)) \in Nat
    BY <2>1, Counting
  <2> QED
    BY <2>1, <2>2, <2>3 DEF Init
<1>2. TypeOK /\ BudgetInv => OverrunIsBounded
  <2> SUFFICES ASSUME TypeOK, Reserved, NEW b \in Budget, Sole(b)
               PROVE  spent[b.period][b.scope]
                        < b.limit + MaxCost * Cardinality(CallersOf(b.scope))
    BY DEF BudgetInv, OverrunIsBounded
  <2>1. b.scope \in Scope /\ b.period \in Period /\ b.limit \in Nat
        /\ MaxCost \in Nat
    BY ScopeAssumption
  <2>2. MaxCost * Cardinality(Committed(b.scope)) \in Nat
        /\ MaxCost * Cardinality(CallersOf(b.scope)) \in Nat
    BY <2>1, Counting
  <2>3. spent[b.period][b.scope] \in Nat
    BY <2>1 DEF TypeOK
  <2> QED
    BY <2>1, <2>2, <2>3 DEF Reserved
<1> QED
  BY <1>1, <1>2, BudgetStep, TypeCorrect, PTL DEF Spec
=============================================================================
