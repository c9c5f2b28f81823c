CONSTANTS
    Scans <- MCScans
    Temperature <- MCTemperature
    NaN = NaN
    None = None
    Sensor_1 = Sensor_1
    other = other
    half = half
    Strings = {Sensor_1, other, half}

SPECIFICATION Spec

INVARIANTS
    ExtremesAreMeasured
    ChangesAreReported
    FailedWriteLeavesNoTrace
