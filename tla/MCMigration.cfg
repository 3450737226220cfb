SPECIFICATION MigrationSpec
CONSTANTS
    name = name
    name2 = name2
    retimed = retimed
    rewritten = rewritten
    other = other
    ContractName = name
    OtherName = name2
    Retimed = retimed
    Rewritten = rewritten
    Other = other
    Builds <- MCBuilds
    RetimedTimestamps <- MCRetimedTimestamps
    RewrittenTimestamps <- MCRewrittenTimestamps
    RewrittenAmounts <- MCRewrittenAmounts
    Deployed <- MCDeployed
    Schedules <- MCDeployedSchedules
    Requests <- MCRequests
    MaxTime = 4
INVARIANTS
    MigrationTypeOK
    RepairedInTime
    LateRepairAccounted
PROPERTIES
    RepairIsFinal
CHECK_DEADLOCK FALSE
