\* Three transactions of every kind at a time on one agent, each of which
\* must end.
SPECIFICATION FairSpec
CONSTANTS
    Agents = {a1}
    Sessions = {h1, h2, h3}
    Kinds = {"send", "turn", "delete"}
    MaxMessages = 2
    MaxEvents = 1
    MaxLosses = 0
    NoRow = NoRow
    NoAgent = NoAgent
INVARIANTS
    TypeOK
    NoOrphanRows
PROPERTIES
    EveryTransactionEnds
    ErrorsMeanDeleted
