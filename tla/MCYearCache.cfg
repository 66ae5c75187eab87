SPECIFICATION Spec
CONSTANTS
    r1 = r1
    r2 = r2
    Worker = stale0
    None = None
    Absent = Absent
    Years = {2024}
    Requests <- MCRequests
    Debounce = 2
    Delay = 1
    PruneAge = 5
    CurrentFresh = 3
    PastFresh = 4
    FirstYear = 2023
    MaxTime = 10
SYMMETRY Symmetry
INVARIANTS
    CacheTypeOK
    MemoryTracksRow
PROPERTIES
    NoEarlyEviction
