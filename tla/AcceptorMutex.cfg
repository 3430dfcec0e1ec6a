\* Two listeners, one of them reuseport; every failure, in any order.
SPECIFICATION Spec
CONSTANTS
    w1 = w1
    w2 = w2
    Workers = {w1, w2}
    NoWorker = NoWorker
    l1 = l1
    l2 = l2
    Listeners = {l1, l2}
    Reuseport = {l2}
    UseMutex = TRUE
    MultiAccept = TRUE
    NoConn = 16
    Pinned = 15
    MaxBacklog = 1
    Faults = {"aborted", "emfile", "nomem", "evfail", "error", "term"}
SYMMETRY WorkerSymmetry
INVARIANTS
    TypeOK
    LockNotLeaked
    FlagMatchesListeners
    BlockedWorkerWakes
CHECK_DEADLOCK FALSE
