\* Two sessions that never serve the same agent together.
SPECIFICATION ExclusiveSpec
CONSTANTS
    Agents = {a1, a2}
    Sessions = {h1, h2}
    Kinds = {"create", "get", "delete", "start", "stop", "restart", "pause", "resume", "advance"}
    MaxTx = 6
    NoRow = NoRow
    NoAgent = NoAgent
SYMMETRY Symmetry
PROPERTIES
    ImplementsLifecycle
    UpdatedAtAdvances
    CompletedIsTerminal
