SPECIFICATION InstantiationSpec
CONSTANTS
    person = person
    bot = bot
    usei = usei
    other = other
    Addresses <- MCAddresses
    Denoms <- MCDenoms
    Timestamps <- MCTimestamps
    PlanAmounts <- MCPlanAmounts
    FundAmounts <- MCFundAmounts
    MaxLength = 2
    Percentages <- MCPercentages
    BlockTimes <- MCBlockTimes
    NanosPerSecond = 2
    HundredYears = 2
    Modulus = 1000
INVARIANTS
    EarliestIsLater
CHECK_DEADLOCK FALSE
