SPECIFICATION FormsSpec
CONSTANTS
    Pages <- OrderOnly
    MaxRequests <- MCMaxRequests
    MaxBlocks <- MCMaxBlocks
    QuotientPlaces = 4
    SwapDenoms = {"a", "b"}
    SwapAmounts = {0, 2, 3}
    SwapBalance = 2
    Prices = {1, 2}
    OrderAmounts = {2}
    OrderBalance = 4
    PoolStates <- MCPoolStates
    PoolAmounts = {0, 3}
    PoolBalance = 30
    PoolShares = 8
    PoolSupply = 100
    PoolSlippages = {5, 30}
    SendDenoms <- MCSendDenoms
    SendAmounts <- MCSendAmounts
    Memos = {0, 1}
    Spendables <- MCSpendables
    Fees = {1}
    StakeDatas <- MCStakeDatas
    StakeAmounts = {0, 2, 5}
PROPERTY OrderIsAsShown
