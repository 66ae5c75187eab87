SPECIFICATION ServiceSpec
CONSTANTS
    r1 = r1
    r2 = r2
    main0 = main0
    stale0 = stale0
    None = None
    Years = {2024}
    AskYears = {2024}
    Overflows = {FALSE}
    PrewarmYears = {}
    Requests <- TwoRequests
    Workers <- MCWorkers
    Main = main0
    StaleWorker = stale0
    MaxVersion = 2
    Crashes = TRUE
INVARIANTS
    OneFlightPerYear
    NoLostWaiter
    NilMeansStored
    CleanExit
PROPERTIES
    VersionsAdvance
    ReadsNeverGoBack
    RefreshSpec
SYMMETRY Symmetry
