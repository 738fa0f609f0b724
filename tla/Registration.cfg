SPECIFICATION Spec
CONSTANTS
    Apps = {a1, a2}
    Stores = {s1, s2}
    NoStore = NoStore
    DEFAULT_CAPACITY = 1
    Capacities = {1, 2}
    Engines = {e1}
    NoEngine = NoEngine
    NotAnEngine = NotAnEngine
    PathPrefixes = {"/inspector"}
    Pages = {"", "/health", "/requests"}
    Environments = {"local", "shared", "production"}
    HostRoutes <- AroundInspector
    Tried <- Tries
    Raises = {"router", "add_docs", "engine"}
    MaxRoutes = 2
SYMMETRY Symmetry
CONSTRAINT Bound
INVARIANTS TypeOK AllOrNothing RoutesAreKept InspectorAnswers EnginesAreHooked StoreIsCaptured
