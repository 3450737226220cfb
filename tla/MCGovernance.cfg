SPECIFICATION GovSpec
CONSTANTS
    a1 = a1
    a2 = a2
    a3 = a3
    op = op
    self = self
    Address <- MCAddress
    Self = self
    OpCandidate <- MCOpCandidate
    Thresholds <- MCThresholds
    Periods <- MCPeriods
    ProposalMsgs <- AdminMsgs
    MaxProposals = 2
    MaxClock = 2
SYMMETRY Symmetry
INVARIANTS
    GovTypeOK
    TallyMatchesBallots
    DecidedByThreshold
    TallyWithinWeight
PROPERTIES
    AdminsChangeOnlyByMotion
    ListedStatusOnlyAdvances
CHECK_DEADLOCK FALSE
