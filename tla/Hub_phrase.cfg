SPECIFICATION HubSpec
CONSTANTS
    Labels = {"main"}
    Phrases = {11}
    RawKeys = {21}
    MaxCreated = 2
    StartBooks <- MCStartBooks
    MaxTurns = 0
    FirstTurns = 0
CHECK_DEADLOCK FALSE
INVARIANT PhraseRecoversAccount
