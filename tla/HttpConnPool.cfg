\* Two slots, every handler, fair events; event_add may fail, so the reusable
\* list may break.
SPECIFICATION FairSpec
CONSTANTS
    c1 = c1
    c2 = c2
    Conns = {c1, c2}
    Lingering = "on"
INVARIANTS
    TypeOK
    PoolSound
    NoneForgotten
    DrainSparesBusy
PROPERTIES
    ImplementsSlotPool
    DrainedCloses
CHECK_DEADLOCK FALSE
