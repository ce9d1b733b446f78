\* One conversation with one turn: the claim the code does not keep.
SPECIFICATION FairSpec
CONSTANTS
    Conv = {c1}
    Turn = {t1}
    Doc = {d1}
    Audited = {t1}
    NoConv = NoConv
PROPERTIES
    EveryoneIsErased
CHECK_DEADLOCK FALSE
