\* Liveness of the Praxis migration under the fairness of the reconcile loop.
SPECIFICATION FairSpec
CONSTANTS
    a = a
    b = b
    c = c
    SrcConns <- MCSrc
    DstConns <- MCDst
    Missing = Missing
    Keyless = Keyless
    NoKey = NoKey
    ForeignKey = ForeignKey
    MaxLag = 2
    MaxEdits = 1
    SpecChoices <- MCSpecs
PROPERTIES
    RequestedMigrationSettles
    OptOutCleansUp
CHECK_DEADLOCK FALSE
