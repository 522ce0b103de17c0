\* Three requests at a time on one id: the ledger they keep, and their end.
SPECIFICATION FairSpec
CONSTANTS
    Agents = {a1}
    Sessions = {h1, h2, h3}
    Kinds = {"create", "delete", "start", "stop", "restart", "attempt"}
    MaxTx = 4
    NoRow = NoRow
    NoAgent = NoAgent
INVARIANTS
    AttemptsContiguous
    NoOrphanRuns
    LedgerInv
PROPERTIES
    ImplementsLedger
    EveryRequestEnds
