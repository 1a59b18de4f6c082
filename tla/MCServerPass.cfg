\* The passes of one server: failing calls, crashes, stale copies, foreign objects.
SPECIFICATION FairSpec
CONSTANTS
    Scenarios <- MCScenarios
    MaxEdits = 2
INVARIANT TypeOK
PROPERTIES
    ForeignObjectsUntouched
    ReplacedRoleBindingIsOwn
    UnsafeIngressGoes
    InternalServerNotExposed
    ManifestsConverge
    PresentInputsServed
CHECK_DEADLOCK FALSE
