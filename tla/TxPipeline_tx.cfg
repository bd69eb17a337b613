SPECIFICATION Spec
CONSTANTS
    t1 = t1
    t2 = t2
    swap = swap
    earn = earn
    alice = alice
    bob = bob
    Txs <- MCTxs
    Sections <- MCSections
    Accounts <- MCAccounts
    Requests <- MCRequests
    MaxAttempts = 3
INVARIANTS
    TxTypeOK
    OnePending
PROPERTIES
    RefreshNotOptimistic
    
