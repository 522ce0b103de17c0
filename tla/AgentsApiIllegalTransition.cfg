\* Two overlapping actions on one agent, each legal when it was read.
SPECIFICATION Spec
CONSTANTS
    Agents = {a1}
    Sessions = {h1, h2}
    Kinds = {"create", "start", "stop"}
    MaxTx = 4
    NoRow = NoRow
    NoAgent = NoAgent
PROPERTIES
    IllegalTransitionsRefused
