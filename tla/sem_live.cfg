CONSTANTS
    p1 = p1  p2 = p2  p3 = p3  k1 = k1
    NoChan = NoChan
    Proc = {p1, p2, p3}
    SEMMNI = 1
    SEMMNS = 2
    SEMMSL = 2
    SEMMAP = 4
    SEMMNU = 2
    SEMUME = 1
    SEMOPM = 2
    SEMVMX = 1
    SEMAEM = 2
    CNTMAX = 3
    SEQMAX = 1
    Key = {"private"}
    IPC_PRIVATE = "private"
    Vectors <- LiveVectors
    Calls = {"semget", "IPC_RMID", "SETVAL", "semop"}
    Privileged = {}
    CopyinSleeps = FALSE
SPECIFICATION FairSpec
CHECK_DEADLOCK FALSE
PROPERTIES
    NoEternalWait
    RemovalReleases
    
