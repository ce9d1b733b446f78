\* An approval and a rejection that overlap.
CONSTANTS
    Run = {r1}
    Request = {q1, q2}
    Payload = {good, bad}
    Permitted = {good}
    NoPayload = NoPayload
SPECIFICATION Spec
INVARIANTS
    RejectedRunWroteNothing
CHECK_DEADLOCK FALSE
