SPECIFICATION Spec
CONSTANTS
    QuotientPlaces = 4
    ValidatorLists <- MCValidatorLists
    Stakes <- MCStakes
    HealthInputs <- MCHealthInputs
    UnlockInputs <- MCUnlockInputs
    PoolSets <- MCPoolSets
    Denoms <- MCDenoms
    Deposits <- MCDeposits
    OrderInputs <- MCOrderInputs
    SendInputs <- MCSendInputs
    CandleInputs <- MCCandleInputs
INVARIANTS
    ScoresRespectDominance
    SplitSpendsTheAmount
    HealthAdviceIsSound
    StakedTotalsAgree
    CountdownIsTrue
    NoRouteIsTrue
    DepositIsNoProfit
    OrderSummaryIsTrue
    SendCanBePaid
    SeriesStaysOrdered
