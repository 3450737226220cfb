SPECIFICATION InstantiationSpec
CONSTANTS
    person = person
    bot = bot
    usei = usei
    other = other
    Addresses <- WrapAddresses
    Denoms <- MCDenoms
    Timestamps <- WrapTimestamps
    PlanAmounts <- WrapAmounts
    FundAmounts <- MCFundAmounts
    MaxLength = 2
    Percentages <- WrapPercentages
    BlockTimes <- WrapBlockTimes
    NanosPerSecond = 2
    HundredYears = 2
    Modulus = 8
INVARIANTS
    PlanIsFunded
CHECK_DEADLOCK FALSE
