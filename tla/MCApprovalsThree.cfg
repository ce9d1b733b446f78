\* Three operators deciding one run at once: safety only, a larger instance than the
\* run of MCApprovals.cfg.
CONSTANTS
    Run = {r1}
    Request = {q1, q2, q3}
    Payload = {good, bad}
    Permitted = {good}
    NoPayload = NoPayload
SYMMETRY RequestSymmetry
SPECIFICATION Spec
INVARIANTS
    TypeOK
    WritesAreGranted
    UndecidedIsUntouched
    SoleDecisionIsHonoured
    WhatGoesOut
    CrmFollowsEmail
PROPERTIES
    SettledIsFinal
CHECK_DEADLOCK FALSE
