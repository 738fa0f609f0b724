SPECIFICATION Spec
CONSTANTS
    Capacity = 2
    ListLimit = 2
    HealthStatuses = {"ok", "other"}
    Faults = {"health", "requests", "aggregates", "detail"}
    MaxRecorded = 2
    MaxActions = 2
INVARIANTS ClickLoads
CHECK_DEADLOCK FALSE
