CONSTANTS
    p1 = p1  p2 = p2  p3 = p3
    NoChan = NoChan
    Proc = {p1, p2}
    MSGMNI = 1
    MSGTQL = 2
    MSGSEG = 2
    MSGSSZ = 2
    MSGMAP = 4
    MSGMNB = 4
    Limits = {}
    SEQMAX = 1
    Sends <- SomeSends
    Receives <- SomeReceives
    Calls = {"msgget", "IPC_RMID", "signal"}
SPECIFICATION FairSpec
PROPERTIES
    AtomicMessages
    Settles
