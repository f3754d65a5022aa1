CONSTANTS
    p1 = p1  p2 = p2  p3 = p3  b1 = b1  c1 = c1  c2 = c2
    Proc = {p1, p2, p3}
    Chan = {c1, c2}
    Bucket = {b1}
    sqhash <- OneBucket
    NoChan = NoChan
    Null = Null
    Signals = {"SIGSTOP", "SIGCONT"}
    Disps = {"PZERO", "PCATCH"}
    Debugged = TRUE
SYMMETRY ProcSymmetry
SPECIFICATION Spec
INVARIANTS
    QueuesLinked
    StatesMatchQueues
PROPERTIES
    StopsHold
    WakesOne
    
