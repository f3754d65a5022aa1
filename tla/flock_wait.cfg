CONSTANTS
    p1 = p1  p2 = p2  p3 = p3  r1 = r1
    NoChan = NoChan
    NoProc = NoProc
    Proc = {p1, p2, p3}
    Remote = {}
    FLCKREC = 6
    MAXEND = 2
    Mem = {2}
    Requests <- ByteRequests
    Calls = {"setlkw", "chklock"}
SYMMETRY ProcSymmetry
SPECIFICATION Spec
INVARIANTS
    NoWaitCycle
