CONSTANTS
    Uids = {u1, u2, u3}
    Handlers = {h1, h2, h3}
    Requests = {r1, r2}
    Nobody = Nobody
    MaxSubmissionsPerMinute = 1
    MaxConcurrentPerUID = 1
    MaxConcurrentTotal = 2
    MaxPendingPerUID = 1
    MaxPendingTotal = 2
    MaxWatchersPerUID = 1
    MaxWatchersPerRequest = 1
    Minute = 2
    MaxClock = 2
    MaxRestarts = 1
SPECIFICATION Spec
SYMMETRY Symmetry
INVARIANTS
    TypeOK
    PendingBounded
    CountersAgree
    RateBounded
    SubmitMuHeldOnPurpose
