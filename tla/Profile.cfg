SPECIFICATION Spec
CONSTANTS
    Funcs = {12, 14}
    Base = 10
    Harts = {0, 1}
    NmFiles <- MCNmFiles
    MAX_ADDR = 50
    HASH_SIZE = 2
    STACK_SIZE = 3
    Targets <- MCTargets
    MaxCalls = 3
    MaxRuns = 2
INVARIANTS TypeOK RowsTrue NothingMissing NamesTrue
CHECK_DEADLOCK FALSE
