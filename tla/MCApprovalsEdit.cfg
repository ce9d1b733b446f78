\* One operator approves with an edited payload.
CONSTANTS
    Run = {r1}
    Request = {q1}
    Payload = {good, bad}
    Permitted = {good}
    NoPayload = NoPayload
SPECIFICATION Spec
INVARIANTS
    ApprovedEditGoesOut
CHECK_DEADLOCK FALSE
