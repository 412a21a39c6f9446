SPECIFICATION SampleSpec
CONSTANTS
    ta1 = ta1  id1 = id1  f1 = f1  d1 = d1  d2 = d2
    NoFile = NoFile  Garbage = Garbage  NoKey = NoKey  Hole <- MCHole
    Apps = {a1, a2}
    TAs = {ta1}
    TaOf <- OneTA
    ObjectIDs = {id1}
    Names = {f1}
    FileOf <- OneFile
    MaxFd = 1
    MaxFaults = 1
    Data = {d1, d2}
    BLK = 2
    CAP = 4
    Handles = {h1}
    MaxBlocks = 2
    MaxOpens = 6
    DoubleClose = FALSE
    Exclusive = FALSE
    CanCrash = TRUE
    Programs = {"digest", "gp"}
    Saved <- MCSaved
    fname = id1
    object = h1
    MaxMains = 3
INVARIANTS SampleTypeOK RoundTrip NoFalseAlarm NothingLeaks
PROPERTIES MainEnds
CHECK_DEADLOCK FALSE
