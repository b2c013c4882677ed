CONSTANTS
    Requests = {r1}
    Legacy = {}
    ApprovalIds = {c1, c2}
    Nil = Nil
    MaxFaults = 1
    MaxRestarts = 1
CHECK_DEADLOCK FALSE
SPECIFICATION Spec
SYMMETRY Symmetry
INVARIANTS
    NotCommittedIsFinal
    ConfirmedIsStored
