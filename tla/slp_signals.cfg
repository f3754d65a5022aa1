CONSTANTS
    p1 = p1  p2 = p2  p3 = p3  b1 = b1  c1 = c1  c2 = c2
    Proc = {p1, p2}
    Chan = {c1}
    Bucket = {b1}
    sqhash <- OneBucket
    NoChan = NoChan
    Null = Null
    Signals = {"SIGKILL", "SIGTERM", "SIGSTOP", "SIGCONT"}
    Disps = {"PZERO", "PCATCH", "PNOSTOP"}
    Debugged = TRUE
SPECIFICATION FairSpec
INVARIANTS
    NothingSleptThrough
PROPERTIES
    KilledReturns
    WokenReturns
