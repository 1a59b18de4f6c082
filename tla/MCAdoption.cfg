\* Safety: the LLSD is deleted, annotations are damaged, calls fail.
SPECIFICATION Spec
CONSTANTS
    None = None
    Invalid = Invalid
    Same = Same
    Own = Own
    l1 = l1
    l2 = l2
    o1 = o1
    Servers <- OneServer
    Legacies <- OneLegacy
    AnnotationChoices <- AllAnnotations
    FirstOwners = {"legacy", "other"}
    Labelled = TRUE
    Restarts = FALSE
    Faults = TRUE
    MaxLag = 2
    MaxEdits = 1
INVARIANT TypeOK
PROPERTY AdoptedSurvivesLegacyRemoval
PROPERTY UnexpectedOwnerUntouched
PROPERTY ScaledDownBeforeMount
CHECK_DEADLOCK FALSE
