CONSTANTS
    p1 = p1  p2 = p2  p3 = p3  k1 = k1
    NoChan = NoChan
    Proc = {p1, p2}
    SEMMNI = 2
    SEMMNS = 3
    SEMMSL = 2
    SEMMAP = 3
    SEMMNU = 2
    SEMUME = 1
    SEMOPM = 2
    SEMVMX = 1
    SEMAEM = 1
    CNTMAX = 2
    SEQMAX = 1
    Key = {"private"}
    IPC_PRIVATE = "private"
    Vectors <- LifeVectors
    Calls = {"semget", "IPC_RMID", "semop", "exit", "signal"}
    Privileged = {}
    CopyinSleeps = FALSE
SYMMETRY ProcSymmetry
SPECIFICATION Spec
CHECK_DEADLOCK FALSE
INVARIANTS
    SleepersOnLiveSets
    
    SetsDisjoint
    FreeUnitsClean
    UndoNamesLiveSets
