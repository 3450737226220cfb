SPECIFICATION Spec
CONSTANTS
    p = p
    q = q
    self = self
    Address <- MCAddress
    Self = self
    OpCandidate <- MCOpCandidate
    Recipients <- MCRecipients
    Thresholds <- MCThresholds
    Periods <- MCPeriods
    ProposalMsgs <- MCProposalMsgs
    MaxProposals = 2
    MaxClock = 1
    Schedules <- MCSchedules
    Requests <- MCRequests
    Amounts <- MCAmounts
    MaxTime = 1
    NumValidators = 1
    MaxUnbonding = 1
    MaxReward = 1
    MaxSlash = 0
    MaxDeposit = 0
    MaxReturned = 2
INVARIANTS
    EmergencySettles
    PaymentsMatchCounters
    OverWithdrawImpossible
    Solvent
    ListedVotesDecide
    InfoIsConsistent
PROPERTIES
    PaidAsDecided
    ListingsAreLasting
    TreasuryObeysAdmins
CHECK_DEADLOCK FALSE
