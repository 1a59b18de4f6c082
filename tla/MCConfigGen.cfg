\* From admission to the generated config, over many specs and base configs.
SPECIFICATION Spec
CONSTANTS
    None = None
    s1 = s1
    s2 = s2
    Specs <- MCSpecs
    Edits <- MCEdits
    Bases <- MCBases
    NamesInOrder <- MCNamesInOrder
INVARIANTS
    TypeOK
    ServedAsWritten
    ModelsHaveProviders
    StorageHoldsTogether
    DefaultConfigNotWidened
    GrandfatheredStaysEditable
PROPERTY SafeStaysSafe
CHECK_DEADLOCK FALSE
