SPECIFICATION Spec
CONSTANTS
    Pipelines <- MCPipelines
    HeaderBuf = 8
    MaxHeader = 8
    MaxHeaders = 3
    BodyBuf = 4
    MaxBody = 17
    Grow = 4
    Limit = 8
    Fails = TRUE
INVARIANTS TypeOK BytesExact SharedBufferStays WaitsForMore EofTrue MemoryBounded
PROPERTIES ReadEnds
CHECK_DEADLOCK FALSE
