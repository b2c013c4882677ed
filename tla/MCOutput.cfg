CONSTANTS
    Streams = {stdout, stderr}
    MaxWritten = 2
    BufferBytes = 2
    PersistedBytes = 2
    LiveBytes = 2
    MaxFaults = 1
    MaxRestarts = 1
CHECK_DEADLOCK FALSE
SPECIFICATION FairSpec
INVARIANTS
    PrintedOnce
    PrefixStored
    CapHolds
    LossIsReported
    ExitCodeIsTheCommands
PROPERTIES
    CLIReturns
