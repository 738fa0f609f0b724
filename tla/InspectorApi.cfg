SPECIFICATION Spec
CONSTANTS
    Scenarios <- MCScenarios
    Capacity = 3
    MaxLimit = 2
    DefaultLength = 8
    Routes = {"r1", "r2"}
INVARIANTS TypeOK ListIsASnapshot DeniedSeesNothing OnePassIsExact RedactionIsExact FingerprintIsKept DuplicatesAreRepeats RoutesAddUp PatternsAddUp
