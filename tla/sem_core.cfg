CONSTANTS
    p1 = p1  p2 = p2  p3 = p3  k1 = k1
    NoChan = NoChan
    Proc = {p1, p2, p3}
    SEMMNI = 1
    SEMMNS = 2
    SEMMSL = 2
    SEMMAP = 4
    SEMMNU = 1
    SEMUME = 1
    SEMOPM = 2
    SEMVMX = 2
    SEMAEM = 1
    CNTMAX = 3
    SEQMAX = 0
    Key = {k1, "private"}
    IPC_PRIVATE = "private"
    Vectors <- CoreVectors
    Calls = {"semget", "SETVAL", "SETALL", "IPC_SET", "semop", "exit", "signal"}
    Privileged = {}
    CopyinSleeps = FALSE
SYMMETRY ProcSymmetry
SPECIFICATION Spec
CHECK_DEADLOCK FALSE
INVARIANTS
    TypeOK
    SleepersCounted
    SleepersBlocked
    ValuesInRange
PROPERTIES
    AtomicSemop
