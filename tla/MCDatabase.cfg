SPECIFICATION FairSpec
CONSTANTS
    Hosts = {h1, h2}
    Rows = {r1, r2}
    Budget = 2
    JournalPages = 2
    MaxTransactions = 2
    MaxOperations = 2
INVARIANTS OutcomesSettled
PROPERTIES  LockReleased
