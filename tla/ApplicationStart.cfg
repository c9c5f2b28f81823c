CONSTANTS
    Noise = Noise
    Commands <- MCCommands
    Settle = 0
    TickMod = 32
    BootTexts <- MCBootTexts
    LoopDelay = 0
    Delays <- MCDelays

SPECIFICATION Spec

PROPERTY StartedMeansListening
