CONSTANTS
    Tasks = {t1}
    Workers = {w1, w2}
    Requests = {r1}
    NoRequest = NoRequest
    MaxQueries = 1
    Capacity = 1
    Detached = TRUE
    Faults = {"execute"}
    Statuses = {"success"}
    MaxDepth = 1
    MaxExecutions = 4
SYMMETRY Symmetry
SPECIFICATION Spec
INVARIANTS
    StoredAreSound
    CountIsExact
    KeptIsBounded
