------------------------------- MODULE Access -------------------------------
(***************************************************************************)
(* Who may do what.  A request with a Keycloak token gets a users row, and *)
(* role rows copied from the token when the person has none, and is then   *)
(* decided on the role rows; the routes that services may call as well     *)
(* decide a token on its own roles, or a Fleet API key on its scopes.      *)
(* Administrators add and remove role rows, issue and revoke keys.         *)
(*                                                                         *)
(* One person and one key are followed.  Requests overlap, at READ         *)
(* COMMITTED: a statement sees what is committed, and of two insertions of *)
(* one kc_sub the later waits for the earlier and fails.  Nothing makes a  *)
(* role row unique.  A token or key that is not valid ends its request     *)
(* before any of this; dept_id is left out, so that two rows of one role   *)
(* are two rows of one role in one department.                             *)
(***************************************************************************)
EXTENDS Naturals, FiniteSets

CONSTANTS
    Role,           \* the roles an administrator may give
    TokenRoles,     \* the roles the person's token names, for as long as it lives
    Request,        \* requests of the person, or with the key
    Admin,          \* administrators adding a role
    MaxRows         \* bound: rows of one role

Permission == {"chat", "upload", "manage_agents", "approve", "manage_dept",
               "manage_platform"}

\* ROLE_PERMISSIONS.
RolePermissions ==
    [member |-> {"chat", "upload"},
     builder |-> {"chat", "upload", "manage_agents"},
     approver |-> {"chat", "upload", "approve"},
     dept_admin |-> Permission \ {"manage_platform"},
     platform_admin |-> Permission]

\* permissions_for: a role it does not know grants nothing.
PermissionsFor(roles) ==
    UNION {RolePermissions[r] : r \in roles \cap DOMAIN RolePermissions}

\* What the constants must be.
AccessAssumption ==
    /\ Role \subseteq DOMAIN RolePermissions
    /\ MaxRows \in Nat \ {0}

VARIABLES
    user,       \* the person has a users row
    rows,       \* rows[x]: how many rows give the person role x
    key,        \* the API key's row
    req,        \* req[r]: the request
    adding,     \* adding[a]: the roles an administrator is about to insert
    struck,     \* history: the roles an administrator took away and none gave back
    exposed     \* history: those of them that the token may bring back

vars == <<user, rows, key, req, adding, struck, exposed>>

Known == Role \cup TokenRoles
Route == {"roles", "token", "key"}

Free == [step |-> "free"]
Pending == [step : {"arrived", "checked", "committed"}, found : BOOLEAN,
            seeds : SUBSET TokenRoles, gone : SUBSET Known]
Decided == [step : {"decided"}, route : Route, granted : SUBSET Permission,
            due : SUBSET Permission]

TypeOK ==
    /\ user \in BOOLEAN
    /\ rows \in [Known -> 0..MaxRows]
    /\ key \in {"none", "live", "expired", "revoked"}
    /\ req \in [Request -> {Free} \cup Pending \cup Decided]
    /\ adding \in [Admin -> SUBSET Role]
    /\ struck \subseteq Known
    /\ exposed \subseteq struck

Init ==
    /\ user = FALSE
    /\ rows = [x \in Known |-> 0]
    /\ key = "none"
    /\ req = [r \in Request |-> Free]
    /\ adding = [a \in Admin |-> {}]
    /\ struck = {}
    /\ exposed = {}

Held == {x \in Known : rows[x] > 0}

More(set) == [x \in Known |-> IF x \in set THEN rows[x] + 1 ELSE rows[x]]
Room(set) == \A x \in set : rows[x] < MaxRows

-----------------------------------------------------------------------------
(* get_current_user, for the routes behind require_permission. *)

\* get_or_create_user selects the row of the token's subject.
Arrive(r) ==
    /\ req[r].step \in {"free", "decided"}
    /\ req' = [req EXCEPT ![r] = [step |-> "arrived", found |-> user,
                                  seeds |-> {}, gone |-> struck]]
    /\ UNCHANGED <<user, rows, key, adding, struck, exposed>>

\* No row was found: user and role rows are inserted in one transaction.  If
\* another request has inserted the person since, kc_sub collides and this one
\* ends with a 500.
FirstLogin(r) ==
    /\ req[r].step = "arrived" /\ ~ req[r].found
    /\ IF user
       THEN /\ req' = [req EXCEPT ![r] = Free]
            /\ UNCHANGED <<user, rows>>
       ELSE /\ user' = TRUE
            /\ rows' = More(TokenRoles)
            /\ req' = [req EXCEPT ![r].step = "committed"]
    /\ UNCHANGED <<key, adding, struck, exposed>>

\* A plausible slip: the roles of the token that are not held are added.
ToSeedMissing == TokenRoles \ Held

\* seed_roles_from_jwt: the token's roles, if the person has no role row.
ToSeed == IF Held # {} THEN {} ELSE TokenRoles

SeedRolesFromJwt(r) ==
    /\ req[r].step = "arrived" /\ req[r].found
    /\ req' = [req EXCEPT ![r].step = "checked", ![r].seeds = ToSeed]
    /\ UNCHANGED <<user, rows, key, adding, struck, exposed>>

Commit(r) ==
    /\ req[r].step = "checked"
    /\ Room(req[r].seeds)
    /\ rows' = More(req[r].seeds)
    /\ req' = [req EXCEPT ![r].step = "committed"]
    /\ UNCHANGED <<user, key, adding, struck, exposed>>

\* What was taken away and stays away, if the code keeps its promise.
KeptAway == struck \ exposed

\* The roles an administrator had taken away before the request came, and that
\* neither an administrator nor the token could have given back since: what
\* they alone granted is not due.
Due(gone) == PermissionsFor(Known \ (gone \cap KeptAway))

Decision(route, granted, due) ==
    [step |-> "decided", route |-> route, granted |-> granted, due |-> due]

\* A plausible slip: what the token says counts beside the role rows.
LoadRolesAndToken(r) ==
    /\ req[r].step = "committed"
    /\ req' = [req EXCEPT ![r] =
                  Decision("roles", PermissionsFor(Held \cup TokenRoles), Due(req[r].gone))]
    /\ UNCHANGED <<user, rows, key, adding, struck, exposed>>

\* load_roles, and require_permission over what it finds.
LoadRoles(r) ==
    /\ req[r].step = "committed"
    /\ req' = [req EXCEPT ![r] =
                  Decision("roles", PermissionsFor(Held), Due(req[r].gone))]
    /\ UNCHANGED <<user, rows, key, adding, struck, exposed>>

\* The request fails or its client goes away: the transaction is rolled back.
Abort(r) ==
    /\ req[r].step \in {"arrived", "checked"}
    /\ req' = [req EXCEPT ![r] = Free]
    /\ UNCHANGED <<user, rows, key, adding, struck, exposed>>

-----------------------------------------------------------------------------
(* require_user_or_service_scope: a bearer token if there is one, else a key
   that is neither revoked nor expired.  What a key may do is written as the
   permission "approve", the scope of the routes that accept one. *)

DecideOnToken(r) ==
    /\ req[r].step \in {"free", "decided"}
    /\ req' = [req EXCEPT ![r] =
                  Decision("token", PermissionsFor(TokenRoles), Due(struck))]
    /\ UNCHANGED <<user, rows, key, adding, struck, exposed>>

\* validate_record.
Usable(record) == record \notin {"none", "revoked", "expired"}

DecideOnKey(r) ==
    LET opens == [usable \in BOOLEAN |-> IF usable THEN {"approve"} ELSE {}] IN
    /\ req[r].step \in {"free", "decided"}
    /\ req' = [req EXCEPT ![r] =
                  Decision("key", opens[Usable(key)], opens[key = "live"])]
    /\ UNCHANGED <<user, rows, key, adding, struck, exposed>>

-----------------------------------------------------------------------------
(* Administrators. *)

\* add_role looks for the row, then inserts it: 409 if there is one, and 500
\* if there are several (scalar_one_or_none).
AddRole(a, x) ==
    /\ user /\ adding[a] = {} /\ rows[x] = 0
    /\ adding' = [adding EXCEPT ![a] = {x}]
    /\ UNCHANGED <<user, rows, key, req, struck, exposed>>

InsertRole(a) ==
    /\ adding[a] # {} /\ Room(adding[a])
    /\ rows' = More(adding[a])
    /\ struck' = struck \ adding[a]
    /\ exposed' = exposed \ adding[a]
    /\ adding' = [adding EXCEPT ![a] = {}]
    /\ UNCHANGED <<user, key, req>>

\* A login that found no role row is about to commit a row of role x.
Coming(x) == \E r \in Request : req[r].step = "checked" /\ x \in req[r].seeds

\* remove_role deletes one row.  Who is left without any is given the token's
\* roles again at the next request, whatever was taken away; and a login at
\* work commits what it set out to seed.
RemoveRole(x) ==
    /\ rows[x] > 0
    /\ rows' = [rows EXCEPT ![x] = @ - 1]
    /\ struck' = IF rows'[x] = 0 THEN struck \cup {x} ELSE struck
    /\ exposed' = IF \A y \in Known : rows'[y] = 0 THEN struck'
                  ELSE IF rows'[x] > 0 THEN exposed
                  ELSE IF Coming(x) THEN exposed \cup {x} ELSE exposed \ {x}
    /\ UNCHANGED <<user, key, req, adding>>

IssueApiKey == key = "none" /\ key' = "live"
RevokeApiKey == key # "none" /\ key' = "revoked"
ExpireApiKey == key = "live" /\ key' = "expired"

Next ==
    \/ \E r \in Request :
          \/ Arrive(r) \/ FirstLogin(r) \/ SeedRolesFromJwt(r)
          \/ Commit(r) \/ LoadRoles(r) \/ Abort(r)
          \/ DecideOnToken(r) \/ DecideOnKey(r)
    \/ \E a \in Admin : InsertRole(a) \/ \E x \in Role : AddRole(a, x)
    \/ \E x \in Known : RemoveRole(x)
    \/ /\ IssueApiKey \/ RevokeApiKey \/ ExpireApiKey
       /\ UNCHANGED <<user, rows, req, adding, struck, exposed>>

Spec == Init /\ [][Next]_vars

-----------------------------------------------------------------------------
(* A role an administrator took away stays away until an administrator gives it
   back, with two exceptions, which "exposed" keeps: the person was then, or
   later, left without any role row, so that the token's roles were seeded
   again; or a login that had found no role row was still at work when the role
   was taken.  No other login, first or later, alone or overlapping others,
   brings a role back from the token. *)
RemovedStaysRemoved == \A x \in KeptAway : rows[x] = 0

(* What the role rows decide, an edit decides, with the same two exceptions: a
   request that arrives after a role was taken away, or a key revoked or expired,
   is not let through on it. *)
EditsReachRequests ==
    \A r \in Request : req[r].step = "decided" /\ req[r].route # "token" =>
                            req[r].granted \subseteq req[r].due

(* No exception: an administrator's edit is never overwritten by what the token
   still says, as seed_roles_from_jwt promises. *)
EditsAreKept == \A x \in struck : rows[x] = 0
=============================================================================
