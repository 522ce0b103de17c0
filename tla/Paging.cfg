\* Two writers of up to four agents, deletes, and a client that pages.
SPECIFICATION Spec
CONSTANTS
    Agents = {1, 2, 3, 4}
    Writers = {w1, w2}
    MaxLimit = 2
    MaxOffset = 9
    MaxClock = 3
    NoRow = NoRow
INVARIANTS
    TypeOK
    SkipsNeedDeletes
    RepeatsNeedCreates
    QuietScanIsTheTable
