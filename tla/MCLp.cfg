SPECIFICATION LpSpec
CHECK_DEADLOCK FALSE
CONSTANTS
    Schedules <- MCSchedules
    Instants <- MCInstants
    Multipliers = {1, 2}
    Worth = 100
    Quiet = 60
    SqrtPrices = {20, 39, 41}
    MinSqrtPrice = 10
    MaxSqrtPrice = 100
    Q96 = 40
    Unit = 100
    One = 10000
    Lowest = 20
    Highest = 80
    MaxFeeCap = 500
    MaxOpeningRamp = 120
    MaxReferenceAge = 60
    MaxCorporateActionWindow = 4320
    MaxReportDelay = 5
    Accounts = {lp1, lp2}
    Dead = dead
    MinShares = 2
    Foci <- MCFoci
    Days <- MCDays
    Sizes = {1, 4}
    Fees <- MCFees
    Amounts = {0, 9}
INVARIANTS CalendarTrue  Backed
PROPERTY SharesKeepValue
