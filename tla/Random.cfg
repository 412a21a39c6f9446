SPECIFICATION Spec
CONSTANTS
    Libs = {"mbed", "wolf"}
    CHUNK = 2
    SHORTCUT = 3
    WORD = 7
    MaxLen = 5
    KeyLen = 4
    SeedLen = 3
    MaxCalls = 3
    MaxFaults = 2
INVARIANTS TypeOK FilledFresh NoOverrun SeededThisInstance
CHECK_DEADLOCK FALSE
