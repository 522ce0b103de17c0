\* Two migrations at once between base, d87365651814 and the head, and a
\* request on the one agent.
SPECIFICATION Spec
CONSTANTS
    Agents = {a1}
    Migrators = {m1, m2}
    Requests = {h1}
    Targets <- MCTargets
    m1 = m1
    m2 = m2
    NoRow = NoRow
    Same = Same
    NoTable = NoTable
INVARIANTS
    TypeOK
    SchemaMatchesVersion
    OnlyStalePlansFail
    HeadServes
PROPERTIES
    RowsOutliveMigrations
