\* Three requests over the two rows a name can have had, three workflows and
\* two definitions.
SPECIFICATION Spec
CONSTANTS
    Request = {q1, q2, q3}
    Row = {r1, r2}
    Workflow = {w1, w2, w3}
    Definition = {d1, d2}
    NoWorkflow = NoWorkflow
    NoDefinition = NoDefinition
SYMMETRY Alike
INVARIANTS
    TypeOK
    LastWordHolds
    OrphanHasACause
CHECK_DEADLOCK FALSE
