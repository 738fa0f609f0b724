CONSTANTS
    Tasks = {t1, t2}
    Workers = {w1}
    Requests = {r1, r2}
    NoRequest = NoRequest
    MaxQueries = 1
    Capacity = 2
    Detached = FALSE
    Faults = {"execute", "fetch", "connection"}
    Statuses = {"success", "server_error", "other"}
    MaxDepth = 2
    MaxExecutions = 2
SYMMETRY Symmetry
SPECIFICATION Spec
INVARIANTS
    TypeOK
    ContextIsOwn
    OnlyOwnQueries
    EventIsExact
    EndedIsStored
PROPERTY RecordsAtomically
