\* Up to four routes in any order, in which pgrest_count_params stops at two
\* wildcards and a path has up to three; a lookup has room for one parameter.
SPECIFICATION Spec
CONSTANTS
    Routes <- MCRoutes
    Urls <- MCUrls
    MaxRoutes = 4
    MaxParams = 1
    ParamLimit = 2
INVARIANTS
    TreeExact
    FindExact
    WildcardsCounted
    WalkerVisitsAll
CHECK_DEADLOCK FALSE
