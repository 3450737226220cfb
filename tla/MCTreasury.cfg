SPECIFICATION TreasurySpec
CONSTANTS
    op = op
    unlock = unlock
    reward = reward
    self = self
    Address <- MCAddress
    Self = self
    OpCandidate <- MCOpCandidate
    Recipients <- MCRecipients
    Schedules <- MCSchedules
    Requests <- MCRequests
    Amounts <- MCAmounts
    MaxTime = 2
    NumValidators = 2
    MaxUnbonding = 2
    MaxReward = 2
    MaxSlash = 1
    MaxDeposit = 1
    MaxReturned = 0
SYMMETRY Symmetry
INVARIANTS
    TreasuryTypeOK
    PaymentsMatchCounters
    OverWithdrawImpossible
    Solvent
PROPERTIES
    RewardWithdrawalExact
    ImplementsCustody
CHECK_DEADLOCK FALSE
