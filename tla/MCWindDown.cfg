SPECIFICATION WindDownSpec
CONSTANTS
    p = p
    self = self
    Address <- MCAddress
    Self = self
    OpCandidate <- MCPeople
    Recipients <- MCPeople
    Thresholds <- MCThresholds
    Periods <- MCPeriods
    ProposalMsgs <- MCProposalMsgs
    MaxProposals = 2
    MaxClock = 1
    Schedules <- MCSchedules
    Requests <- MCRequests
    Amounts <- MCAmounts
    MaxTime = 1
    NumValidators = 2
    MaxUnbonding = 1
    MaxReward = 1
    MaxSlash = 1
    MaxDeposit = 0
    MaxReturned = 0
PROPERTIES
    EmergencyEventuallyPaid
    RewardsEventuallyCollected
    VestedEventuallyPaid
CHECK_DEADLOCK FALSE
