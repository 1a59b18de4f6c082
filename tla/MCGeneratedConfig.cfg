\* Two contents, one retained; users switch between them, their own config and none.
CONSTANTS
    c1 = c1
    c2 = c2
    Contents = {c1, c2}
    None = None
    Override = Override
    Absent = Absent
    Retention = 1
    HistoryLimit = 1
    MaxEdits = 2
SPECIFICATION FairSpec
INVARIANT TypeOK
PROPERTY InUseConfigKept
PROPERTY RolloutConverges
PROPERTY StaleConfigsCollected
CHECK_DEADLOCK FALSE
