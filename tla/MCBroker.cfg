CONSTANTS
    Requests = {r1}
    Legacy = {}
    ApprovalIds = {c1, c2}
    Nil = Nil
    MaxCrashes = 1
    MaxFaults = 1
    MaxDamages = 0
    MaxChanges = 1
SPECIFICATION Spec
SYMMETRY Symmetry
INVARIANTS
    BrokerInv
    AtMostOnce
    RanIsRecorded
    RepliesHold
    OneExecutor
    SelectionHolds
    NoAbandonedWork
    AuditIsTrue
PROPERTIES
    Authorised
