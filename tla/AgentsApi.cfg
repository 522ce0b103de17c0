\* Every kind of request, the execution loop included, any overlap of two.
SPECIFICATION Spec
CONSTANTS
    Agents = {a1, a2}
    Sessions = {h1, h2}
    Kinds = {"create", "get", "delete", "start", "stop", "restart", "pause", "resume", "advance"}
    MaxTx = 6
    NoRow = NoRow
    NoAgent = NoAgent
SYMMETRY Symmetry
INVARIANTS
    TypeOK
    AttemptsMatchStatus
    RoutesNeverCollide
    CallersCanStop
PROPERTIES
    StartingMeansNewAttempt
    UnhandledOnlyByDeletion
