\* The Praxis migration: stale cache, failures, users editing everything.
SPECIFICATION Spec
CONSTANTS
    a = a
    b = b
    c = c
    SrcConns <- MCSrc
    DstConns <- MCDst
    Missing = Missing
    Keyless = Keyless
    NoKey = NoKey
    ForeignKey = ForeignKey
    MaxLag = 2
    MaxEdits = 2
    SpecChoices <- MCSpecs
INVARIANTS
    TypeOK
    CutoverImpliesCompleted
    NeverOptedInUntouched
    AttemptsNotDuplicated
PROPERTIES
    ForeignJobUntouched
    GateRefinement
CHECK_DEADLOCK FALSE
