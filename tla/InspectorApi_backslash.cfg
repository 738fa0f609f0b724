SPECIFICATION Spec
CONSTANTS
    Scenarios <- BackslashScenarios
    Capacity = 3
    MaxLimit = 2
    DefaultLength = 8
    Routes = {"r1", "r2"}
INVARIANT RedactionIsExact
