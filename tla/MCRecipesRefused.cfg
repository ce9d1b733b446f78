\* One recipe deployed and deleted, in turn: ends in a counterexample (README, 5).
SPECIFICATION Spec
CONSTANTS
    Request = {q1, q2}
    Row = {r1}
    Workflow = {w1}
    Definition = {d1}
    NoWorkflow = NoWorkflow
    NoDefinition = NoDefinition
INVARIANTS
    OrphanIsNamed
CHECK_DEADLOCK FALSE
