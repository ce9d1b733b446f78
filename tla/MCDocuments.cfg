\* Two files of one collection with a chunk in common; two uploads, a worker that
\* crashes and retries, and two erasures.
CONSTANTS
    d1 = d1  d2 = d2  f1 = f1  f2 = f2  k1 = k1  k2 = k2  c1 = c1  c2 = c2
    Doc = {d1, d2}
    File = {f1, f2}
    Chunk = {k1, k2}
    Collection = {c1}
    Home <- OneHome
    Content <- Shared
    Upload = {u1, u2}
    Eraser = {e1, e2}
    Cron = cron
    Retained = {}
    MaxTries = 2
    NoDoc = NoDoc
    NoFile = NoFile
SYMMETRY Interchangeable
SPECIFICATION Spec
INVARIANTS
    TypeOK
    ReadyIsSearchable
    GoneIsClean
PROPERTIES
    NothingRecordedIsReembedded
CHECK_DEADLOCK FALSE
