\* One caller; a scope with a daily and a monthly budget.
CONSTANTS
    global = global
    agent = agent
    user = user
    c1 = c1
    c2 = c2
    c3 = c3
    Scope = {global, agent, user}
    Caller = {c1}
    Path <- MCPath
    Budget <- TwoPeriods
    MaxCost = 2
    Request <- MCRequest
    NoRequest = NoRequest
    Model <- MCModel
    NoModel = NoModel
    RoleOf <- MCRoleOf
    Clearance <- MCClearance
    Local <- MCLocal
    Chain <- MCChain
SPECIFICATION Spec
INVARIANTS
    HardStopBlocks
