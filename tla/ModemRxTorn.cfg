CONSTANTS
    RxLen = 5
    MaxMsg = 1
    SizeMod = 64
    Builds = {"assert"}

SPECIFICATION Spec

INVARIANT ConsumesReceived
