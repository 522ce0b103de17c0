\* Two overlapping sends to one agent.
SPECIFICATION Spec
CONSTANTS
    Agents = {a1}
    Sessions = {h1, h2}
    Kinds = {"send"}
    MaxMessages = 2
    MaxEvents = 0
    MaxLosses = 1
    NoRow = NoRow
    NoAgent = NoAgent
CHECK_DEADLOCK FALSE
PROPERTIES
    MessageCursorNeverSkips
