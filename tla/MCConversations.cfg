\* Two conversations, two turns and a document, against repeated erasures.
SPECIFICATION FairSpec
CONSTANTS
    Conv = {c1, c2}
    Turn = {t1, t2}
    Doc = {d1}
    Audited = {t1}
    NoConv = NoConv
INVARIANTS
    TypeOK
    NothingStray
    AnsweredMeansErased
PROPERTIES
    ErasedWhole
    ErasureIsAnswered
CHECK_DEADLOCK FALSE
