CONSTANTS
    Requests = {old}
    Legacy = {old}
    ApprovalIds = {c1}
    Nil = Nil
    MaxCrashes = 1
    MaxFaults = 0
    MaxDamages = 2
    MaxChanges = 0
SPECIFICATION FairSpec
INVARIANTS
    RanAsConfirmed
PROPERTIES
    RequestsSettle
