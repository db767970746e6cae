SPECIFICATION FairSpec
CONSTANTS
    none = none
    r1 = r1
    r2 = r2
    op = op
    NoDoc = none
    Docs <- OneDoc
    Rounds <- OneRound
    Operators <- OneOperator
    Unmailable <- AllMailable
    MaxResends = 2
    MaxBytes = 2
    MaxHitches = 2
CHECK_DEADLOCK FALSE
PROPERTIES
    HealedIsDelivered
    QueueDrains
