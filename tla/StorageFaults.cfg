SPECIFICATION FairSpec
CONSTANTS
    ta1 = ta1  id1 = id1  id2 = id2  f1 = f1  f2 = f2
    NoFile = NoFile  Garbage = Garbage  NoKey = NoKey  Hole <- MCHole
    Apps = {a1}
    TAs = {ta1}
    TaOf <- OneTA
    ObjectIDs = {id1, id2}
    Names = {f1, f2}
    FileOf <- OwnFile
    MaxFd = 1
    MaxFaults = 1
    Data = {d1}
    BLK = 2
    CAP = 2
    Handles = {h1, h2}
    MaxBlocks = 2
    MaxOpens = 2
    DoubleClose = FALSE
    Exclusive = FALSE
    CanCrash = TRUE
INVARIANTS TypeOK LoopInBounds GenuineBlocks DescriptorsOwned
PROPERTIES OnlyOwnFileChanges CallReturns
