CONSTANTS
    Streams = {stdout, stderr}
    MaxWritten = 1
    BufferBytes = 2
    PersistedBytes = 2
    LiveBytes = 1
    MaxFaults = 0
    MaxRestarts = 0
CHECK_DEADLOCK FALSE
SPECIFICATION Spec
INVARIANTS
    FinishedIsComplete
