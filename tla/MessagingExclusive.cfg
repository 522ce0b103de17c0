\* One turn at a time, among sends and deletes of the same agent; the loop
\* keeps taking turns.
SPECIFICATION DiligentSpec
CONSTANTS
    Agents = {a1}
    Sessions = {h1, h2, h3}
    Kinds = {"send", "turn", "delete"}
    MaxMessages = 2
    MaxEvents = 2
    MaxLosses = 1
    NoRow = NoRow
    NoAgent = NoAgent
INVARIANTS
    NoSecondStamp
PROPERTIES
    EventCursorNeverSkips
    EveryMessageIsConsumed
