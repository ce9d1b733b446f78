\* One person with one role, two requests.
SPECIFICATION Spec
CONSTANTS
    Role = {"member", "approver"}
    TokenRoles = {"member"}
    Request = {r1, r2}
    Admin = {ad1}
    MaxRows = 2
INVARIANTS
    EditsAreKept
CHECK_DEADLOCK FALSE
