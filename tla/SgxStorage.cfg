SPECIFICATION SgxSpec
CONSTANTS
    a1 = a1  a2 = a2  ta1 = ta1  ta2 = ta2
    id1 = id1  id2 = id2  id3 = id3  f1 = f1  k1 = k1  k2 = k2
    NoFile = NoFile  Garbage = Garbage  NoKey = NoKey  Hole <- MCHole
    Apps = {a1, a2}
    TAs = {ta1, ta2}
    TaOf <- TwoTAs
    ObjectIDs = {id1, id2, id3}
    Names = {f1}
    FileOf <- SharedFile
    KeyId <- SharedKeyId
    MaxFd = 0
    MaxFaults = 1
    Data = {d1}
    BLK = 2
    CAP = 2
    Handles = {h1}
    MaxBlocks = 2
    MaxOpens = 3
    DoubleClose = FALSE
    Exclusive = TRUE
    CanCrash = TRUE
SYMMETRY Sym
INVARIANTS SgxTypeOK SgxPlaintextOwn
PROPERTIES SgxFirstBlockOwn
