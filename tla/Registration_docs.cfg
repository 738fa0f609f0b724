SPECIFICATION Spec
CONSTANTS
    Apps = {a1}
    Stores = {s1, s2}
    NoStore = NoStore
    DEFAULT_CAPACITY = 1
    Capacities = {1, 2}
    Engines = {e1}
    NoEngine = NoEngine
    NotAnEngine = NotAnEngine
    PathPrefixes = {"/inspector"}
    Pages = {"", "/health", "/requests"}
    Environments = {"local"}
    HostRoutes <- AcceptsDocs
    Tried <- LocalCalls
    Raises = {"router", "add_docs", "engine"}
    MaxRoutes = 1
SYMMETRY Symmetry
INVARIANTS DocsAnswer
