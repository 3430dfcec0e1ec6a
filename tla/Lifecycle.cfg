\* Two workers; a pool that is one slot short, and one with room for a client;
\* shared memory to spare or one unit short; one restart.
SPECIFICATION Spec
CONSTANTS
    N = 2
    Kinds <- MCKinds
    PoolSizes = {3, 5}
    Slacks = {2, 3}
    MaxStarts = 2
INVARIANTS
    TypeOK
    StartsIffEnough
    SlotsSound
    EofMeansAlone
    FilesExact
PROPERTIES
    ShutdownEnds
    OrphanNotices
CHECK_DEADLOCK FALSE
