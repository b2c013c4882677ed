CONSTANTS
    Depth = 4
    StrayDirectories = FALSE
SPECIFICATION Spec
INVARIANTS
    AcceptedIsPinned
    ActsOnRootsOwn
    TrustedPathStarts
