\* A Deployment that is replaced as a whole loses its owner reference.
SPECIFICATION FairSpec
CONSTANTS
    Scenarios <- ReplacedDeployment
    MaxEdits = 1
INVARIANT DeploymentKeepsItsOwner
CHECK_DEADLOCK FALSE
