CONSTANTS
    RequestIds = {r1, r2, r3}
    Bodies = {b1}
    Threads = {t1, t2}
    NoThread = NoThread
    BlankId = BlankId
    Capacity = 2
    MaxLimit = 3
SPECIFICATION FairSpec
INVARIANTS
    TypeOK
    Consistent
    EvictedIsIndexed
PROPERTIES ImplementsLog LockIsReleased
CHECK_DEADLOCK TRUE
