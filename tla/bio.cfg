CONSTANTS
    p1 = p1  p2 = p2  p3 = p3
    x = x  y = y  z = z
    b1 = b1  b2 = b2  b3 = b3
    NoChan = NoChan
    NoBuf = NoBuf
    NoBlock = NoBlock
    Proc = {p1, p2}
    Buf = {b1, b2}
    Block = {x, y}
    Size <- Sizes
    EmptySize = 2
    MEM = 2
    Value = {0, 1}
    AWRITEMIN = 0
    Calls = {"bread", "getblk", "blookup", "ngeteblk", "breada", "blkflush", "fsflush", "close", "error"}
SYMMETRY Symmetry
SPECIFICATION Spec
INVARIANTS
    OneBuffer
    BuffersConserved
    WaitersWoken
PROPERTIES
    
    FlushedToDisk
