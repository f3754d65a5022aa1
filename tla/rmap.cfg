CONSTANTS
    p1 = p1  p2 = p2
    Proc = {p1, p2}
    NoChan = NoChan
    Map = Map
    MAPSIZ = 5
    Units = 7
SYMMETRY ProcSymmetry
SPECIFICATION Spec
INVARIANTS
    TableSorted
    WantersStarved
PROPERTIES
    ImplementsFreeMap
