CONSTANTS
    Requests = {r1}
    Legacy = {}
    ApprovalIds = {c1}
    Nil = Nil
    MaxCrashes = 1
    MaxFaults = 0
    MaxDamages = 0
    MaxChanges = 0
SPECIFICATION FairSpec
PROPERTIES
    EveryRequestSettles
