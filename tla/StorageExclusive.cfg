SPECIFICATION Spec
CONSTANTS
    ta1 = ta1  id1 = id1  id2 = id2  f1 = f1  f2 = f2
    NoFile = NoFile  Garbage = Garbage  NoKey = NoKey  Hole <- MCHole
    Apps = {a1}
    TAs = {ta1}
    TaOf <- OneTA
    ObjectIDs = {id1, id2}
    Names = {f1}
    FileOf <- SharedFile
    MaxFd = 0
    MaxFaults = 0
    Data = {d1, d2}
    BLK = 2
    CAP = 2
    Handles = {h1}
    MaxBlocks = 2
    MaxOpens = 4
    DoubleClose = FALSE
    Exclusive = TRUE
    CanCrash = TRUE
SYMMETRY IdSym
INVARIANTS WriterInStep ReaderInStep
PROPERTIES ReadBack ImplementsObjectStore
