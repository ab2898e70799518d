SPECIFICATION Spec
CONSTANTS
    first = first
    fixed = fixed
    rebound = rebound
    broken = broken
    None = None
    Package <- MCPackage
    Valid <- MCValid
    Profile <- MCProfile
    MaxAttempts = {1, 2}
    Second = 2
    Timeout = 1
    RepairTime = 2
    Budget = 4
    MaxTime = 5
CHECK_DEADLOCK FALSE
INVARIANTS OnlyAcceptedLeaves ReceiptMatchesPackage SuccessIsComplete OverrunIsBounded
