\* Legacy objects without the label the cache selects by.
SPECIFICATION Spec
CONSTANTS
    None = None
    Invalid = Invalid
    Same = Same
    Own = Own
    l1 = l1
    l2 = l2
    o1 = o1
    Servers <- OneServer
    Legacies <- OneLegacy
    AnnotationChoices <- StorageAnnotations
    FirstOwners = {"legacy"}
    Labelled = FALSE
    Restarts = FALSE
    Faults = FALSE
    MaxLag = 2
    MaxEdits = 1
PROPERTY ScaledDownBeforeMount
CHECK_DEADLOCK FALSE
