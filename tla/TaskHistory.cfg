\* Three transactions of every kind at a time on one run with two tasks.
SPECIFICATION FairSpec
CONSTANTS
    Runs = {r1}
    Tasks = {t1, t2}
    Iterations = {1}
    Sessions = {h1, h2, h3}
    NoRun = NoRun
    NoTask = NoTask
    NoRow = NoRow
INVARIANTS
    TypeOK
    NoDanglingTask
    NoOrphanRows
PROPERTIES
    HistoryIsKept
    EveryTransactionEnds
