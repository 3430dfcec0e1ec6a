\* Liveness without the mutex: descriptors run out again and again, and every
\* other failure.
SPECIFICATION FairSpec
CONSTANTS
    w1 = w1
    w2 = w2
    Workers = {w1, w2}
    NoWorker = NoWorker
    l1 = l1
    Listeners = {l1}
    Reuseport = {}
    UseMutex = FALSE
    MultiAccept = FALSE
    NoConn = 16
    Pinned = 14
    MaxBacklog = 1
    Faults = {"aborted", "emfile", "nomem", "evfail", "error", "term"}
PROPERTIES
    PausedResumes
CHECK_DEADLOCK FALSE
