\* Liveness, with Pods that restart and calls that fail.
SPECIFICATION FairSpec
CONSTANTS
    None = None
    Invalid = Invalid
    Same = Same
    Own = Own
    l1 = l1
    l2 = l2
    o1 = o1
    Servers <- OneServer
    Legacies <- OneLegacy
    AnnotationChoices <- SingleAnnotations
    FirstOwners = {"legacy"}
    Labelled = TRUE
    Restarts = TRUE
    Faults = TRUE
    MaxLag = 2
    MaxEdits = 1
PROPERTY VolumeGetsAdopted
PROPERTY AdoptedVolumeKept
PROPERTY ReportedNetworkingCleanedUp
CHECK_DEADLOCK FALSE
