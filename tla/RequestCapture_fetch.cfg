CONSTANTS
    Tasks = {t1}
    Workers = {}
    Requests = {r1}
    NoRequest = NoRequest
    MaxQueries = 2
    Capacity = 1
    Detached = FALSE
    Faults = {"fetch"}
    Statuses = {"success"}
    MaxDepth = 1
    MaxExecutions = 2
SYMMETRY Symmetry
SPECIFICATION Spec
INVARIANTS
    OneEventPerExecution
