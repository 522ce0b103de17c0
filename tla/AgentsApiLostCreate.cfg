\* A session lost between its reply and its commit.
SPECIFICATION Spec
CONSTANTS
    Agents = {a1}
    Sessions = {h1}
    Kinds = {"create"}
    MaxTx = 1
    NoRow = NoRow
    NoAgent = NoAgent
PROPERTIES
    AnsweredCreateIsPersisted
