SPECIFICATION Spec
CONSTANTS
    none = none
    r1 = r1
    r2 = r2
    op = op
    NoDoc = none
    Docs <- OneDoc
    Rounds <- OneRound
    Operators <- OneOperator
    Unmailable <- AllMailable
    MaxResends = 1
    MaxBytes = 2
    MaxHitches = 1
CHECK_DEADLOCK FALSE
INVARIANTS
    ArtifactIsTheOneHeld
