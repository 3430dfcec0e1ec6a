\* EMFILE in a round that was sat out.
SPECIFICATION Spec
CONSTANTS
    w1 = w1
    w2 = w2
    Workers = {w1, w2}
    NoWorker = NoWorker
    l1 = l1
    Listeners = {l1}
    Reuseport = {}
    UseMutex = TRUE
    MultiAccept = FALSE
    NoConn = 16
    Pinned = 14
    MaxBacklog = 1
    Faults = {"emfile"}
INVARIANTS
    MutualExclusion
CHECK_DEADLOCK FALSE
