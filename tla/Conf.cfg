CONSTANTS
    Words = 3
    PathMax = 2
    Number <- MCNumber
    Resolver <- MCResolver
    Values <- MCValues
    Themes <- MCThemes
SPECIFICATION Spec
CHECK_DEADLOCK FALSE
INVARIANTS ReadSafely StartsAsWritten ListenersAsWritten Inet6Exact
