SPECIFICATION VestingSpec
CONSTANTS
    MaxEntries = 3
    MaxAmount = 3
    MaxTime = 5
    Schedules <- MCSchedules
    Requests <- MCRequests
INVARIANTS
    VestingTypeOK
    Conservation
    ListedIsWithdrawable
PROPERTIES
    QuoteStaysGood
    ImplementsUnlockQueue
CHECK_DEADLOCK FALSE
