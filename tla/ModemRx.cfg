CONSTANTS
    RxLen = 5
    MaxMsg = 1
    SizeMod = 64
    Builds = {"assert", "ndebug"}

SPECIFICATION Spec

INVARIANTS
    TypeOK
    RingIsFifo
    SeeksReceived
    LineIsReal
    OverrunOnlyIfTorn
    HaltOnlyIfFullOrFlushing

PROPERTY LineIsFound
