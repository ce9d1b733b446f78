\* One upload at a time, crashes of the worker and of the purge, a fair purge.
CONSTANTS
    d1 = d1  d2 = d2  f1 = f1  f2 = f2  k1 = k1  k2 = k2  c1 = c1  c2 = c2
    Doc = {d1, d2}
    File = {f1, f2}
    Chunk = {k1}
    Collection = {c1, c2}
    Home <- TwoHomes
    Content <- Same
    Upload = {u1, u2}
    Eraser = {}
    Cron = cron
    Retained = {c1, c2}
    MaxTries = 1
    NoDoc = NoDoc
    NoFile = NoFile
SPECIFICATION FairSpec
PROPERTIES
    ExpiredIsPurgedIfSweepable
CHECK_DEADLOCK FALSE
