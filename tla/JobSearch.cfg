CONSTANTS
    Jobs = {j1, j2}
    Entries = {e}
    NoEntry = NoEntry
    Faults = {"remoteFails", "outOfOrder"}
    MaxSearches = 3
    MaxUpdates = 1
SPECIFICATION FairSpec
INVARIANTS
    TypeOK
    QuietPageIsCurrent
    UpdateCarriesEntries
PROPERTIES
    ClickIsAnswered
CHECK_DEADLOCK FALSE
