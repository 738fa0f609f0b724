CONSTANTS
    Tasks = {t1}
    Workers = {w1}
    Requests = {r1}
    NoRequest = NoRequest
    MaxQueries = 1
    Capacity = 1
    Detached = TRUE
    Faults = {}
    Statuses = {"success"}
    MaxDepth = 1
    MaxExecutions = 2
SYMMETRY Symmetry
SPECIFICATION Spec
INVARIANTS
    EndedIsStored
