SPECIFICATION HubSpec
CONSTANTS
    Labels = {"main"}
    Phrases = {11}
    RawKeys = {21}
    MaxCreated = 2
    StartBooks <- MCStartBooks
    MaxTurns = 2
    FirstTurns = 1
CHECK_DEADLOCK FALSE
INVARIANTS
    HubTypeOK
    AccountsCanSign
    WizardEndsWell
PROPERTY DataSettles
