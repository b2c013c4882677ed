CONSTANTS
    Requests = {r1, old}
    Legacy = {old}
    ApprovalIds = {a1, a2}
    Nil = Nil
SPECIFICATION StoreSpec
SYMMETRY Symmetry
CONSTRAINT Bound
INVARIANTS
    DecisionMatchesStatus
    ResultMatchesStatus
PROPERTIES
    LegalStatusSteps
    DecisionsAreFinal
