\* The sample file has a listener that writes keep-alive off and then its times,
\* and a handler that writes its mode and then its subscriber.
CONSTANTS
    Words = 3
    PathMax = 2
    Number <- MCNumber
    Resolver <- MCResolver
    Values <- MCValues
    Themes <- MCSampleThemes
SPECIFICATION Spec
CHECK_DEADLOCK FALSE
INVARIANTS SampleAsWritten
