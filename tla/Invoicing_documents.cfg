SPECIFICATION Spec
CONSTANTS
    none = none
    r1 = r1
    r2 = r2
    op = op
    NoDoc = none
    Docs <- FourDocs
    Rounds <- TwoRounds
    Operators <- NoOperators
    Unmailable <- ThirdUnmailable
    MaxResends = 0
    MaxBytes = 1
    MaxHitches = 1
CHECK_DEADLOCK FALSE
SYMMETRY Symmetry
CONSTRAINT CalmAfterMishap
INVARIANTS
    TypeOK
    OneFacturaAtTheAuthority
    OneCreditPerFactura
    NotesCreditAuthorized
    ReversedSaleIsUndone
    MailedOnce
PROPERTIES
    DeadStayDead
    ImplementsSaleDocuments
