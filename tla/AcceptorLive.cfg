\* Mutual exclusion, and liveness with the mutex, while memory and connection
\* slots run out.
SPECIFICATION FairSpec
CONSTANTS
    w1 = w1
    w2 = w2
    Workers = {w1, w2}
    NoWorker = NoWorker
    l1 = l1
    l2 = l2
    Listeners = {l1, l2}
    Reuseport = {l2}
    UseMutex = TRUE
    MultiAccept = FALSE
    NoConn = 16
    Pinned = 14
    MaxBacklog = 1
    Faults = {"nomem"}
INVARIANTS
    MutualExclusion
PROPERTIES
    PendingAccepted
