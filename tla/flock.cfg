CONSTANTS
    p1 = p1  p2 = p2  p3 = p3  r1 = r1
    NoChan = NoChan
    NoProc = NoProc
    Proc = {p1}
    Remote = {r1}
    FLCKREC = 4
    MAXEND = 3
    Mem = {0, 2}
    Requests <- SomeRequests
    Calls = {"setlkw", "close", "signal", "crash"}
SPECIFICATION Spec
INVARIANTS
    RequestsListed
    ListOrdered
    NoConflict
    SleepersBlocked
PROPERTY
    ExactBytes
