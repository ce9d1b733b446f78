\* One run of any agent, two operators deciding it at once; when every handler that
\* is not lost runs to its end, approvals take effect.
CONSTANTS
    Run = {r1}
    Request = {q1, q2}
    Payload = {good, bad}
    Permitted = {good}
    NoPayload = NoPayload
SPECIFICATION FairSpec
INVARIANTS
    TypeOK
    WritesAreGranted
    UndecidedIsUntouched
    SoleDecisionIsHonoured
    WhatGoesOut
    CrmFollowsEmail
PROPERTIES
    SettledIsFinal
    ApprovalTakesEffect
    ImplementsGate
CHECK_DEADLOCK FALSE
