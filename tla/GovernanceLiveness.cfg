SPECIFICATION GovFairSpec
CONSTANTS
    a1 = a1
    a2 = a2
    a3 = a3
    op = op
    self = self
    Address <- PairAddress
    Self = self
    OpCandidate <- MCOpCandidate
    Thresholds <- PairThresholds
    Periods <- MCPeriods
    ProposalMsgs <- PairMsgs
    MaxProposals = 2
    MaxClock = 1
PROPERTIES
    ImplementsMultisig
    ApprovedEventuallyExecuted
    ListedDecidedInTheEnd
CHECK_DEADLOCK FALSE
