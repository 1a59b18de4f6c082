\* A cleanup that fails.
CONSTANTS
    o1 = o1
    o2 = o2
    Objects = {o1, o2}
    MaxLag = 2
    MaxEdits = 2
SPECIFICATION Spec
PROPERTY RemovedReportIsTrue
CHECK_DEADLOCK FALSE
