\* Users switch the module on and off and delete it; everything may fail.
CONSTANTS
    o1 = o1
    o2 = o2
    Objects = {o1, o2}
    MaxLag = 2
    MaxEdits = 3
SPECIFICATION FairSpec
INVARIANT TypeOK
INVARIANT GoneMeansCleaned
PROPERTY ManagedConverges
PROPERTY RemovalCompletes
CHECK_DEADLOCK FALSE
