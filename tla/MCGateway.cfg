\* Three overlapping callers, one budget row a scope.
CONSTANTS
    global = global
    agent = agent
    user = user
    c1 = c1
    c2 = c2
    c3 = c3
    Scope = {global, agent, user}
    Caller = {c1, c2, c3}
    Path <- MCPath
    Budget <- MCBudget
    MaxCost = 2
    Request <- MCRequest
    NoRequest = NoRequest
    Model <- MCModel
    NoModel = NoModel
    RoleOf <- MCRoleOf
    Clearance <- MCClearance
    Local <- MCLocal
    Chain <- MCChain
SYMMETRY Alike
SPECIFICATION Spec
INVARIANTS
    TypeOK
    ServedIsCleared
    OverrunIsBounded
