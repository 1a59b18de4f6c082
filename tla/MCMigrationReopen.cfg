\* Opting out and in again leaves Validated without cutover readiness.
SPECIFICATION FairSpec
CONSTANTS
    a = a
    b = b
    c = c
    SrcConns <- MCSrc
    DstConns <- MCDstSmall
    Missing = Missing
    Keyless = Keyless
    NoKey = NoKey
    ForeignKey = ForeignKey
    MaxLag = 2
    MaxEdits = 2
    SpecChoices <- MCSpecs
PROPERTY
    ValidatedOpensCutover
CHECK_DEADLOCK FALSE
