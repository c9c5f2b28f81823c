CONSTANTS
    a = a
    b = b
    c = c
    junk = junk
    TxLen = 5
    Zero = a
    Byte <- MCByte
    Commands <- MCCommands
    Clobber <- MCClobber

SPECIFICATION Spec

INVARIANT WireIntegrity
