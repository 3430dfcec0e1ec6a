\* Five pages, runs of up to three, one chunk size, pages freed twice.
SPECIFICATION Spec
CONSTANTS
    NPages = 5
    NClasses = 1
    Chunks <- ChunksOf
    Reserved <- ReservedOf
    MaxRun = 3
    DoubleFrees = TRUE
INVARIANTS
    ListsExact
    SlotListsExact
PROPERTIES
    ImplementsAllocator
