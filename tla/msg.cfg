CONSTANTS
    p1 = p1  p2 = p2  p3 = p3
    NoChan = NoChan
    Proc = {p1, p2, p3}
    MSGMNI = 1
    MSGTQL = 2
    MSGSEG = 1
    MSGSSZ = 2
    MSGMAP = 4
    MSGMNB = 1
    Limits = {0, 1}
    SEQMAX = 1
    Sends <- FewSends
    Receives <- FewReceives
    Calls = {"msgget", "IPC_RMID", "IPC_SET", "signal"}
SYMMETRY ProcSymmetry
SPECIFICATION Spec
INVARIANTS
    LocksHeld
    
    SleepersStarved
