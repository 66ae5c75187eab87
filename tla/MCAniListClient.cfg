SPECIFICATION FairSpec
CONSTANTS
    a = a
    b = b
    c = c
    Shows <- MCShows
    PerPage = 1
    MaxRetry = 3
INVARIANTS
    TypeOK
    SteadyListed
    SteadyOnce
    RequestsBounded
PROPERTIES
    FetchEnds
