SPECIFICATION Spec
CONSTANTS
    Threads = {t1, t2, t3}
    NoThread = NoThread
    Engines = {e1, e2}
    NoEngine = NoEngine
    Sets = {s1, s2, s3, s4}
    NoSet = NoSet
    ListenFails = TRUE
SYMMETRY Symmetry
INVARIANTS TypeOK Consistent SeenOnce
